---------------------------- MODULE Spec2Model ----------------------------
(***************************************************************************)
(* A model of nvme-lint's table transformer (src/nvme_lint/transformer.py). *)
(*                                                                         *)
(* A Python value is a tagged record [t |-> <type>, v |-> <payload>]:       *)
(*   "str"  a string               "int"  an integer                        *)
(*   "ints" a list of integers     "strs" a list of strings                 *)
(*   "rows" a list of row dicts (the value of "children")                   *)
(* A row dict is a function from its keys (strings) to such values.  A     *)
(* Table is a record with the attributes set by Table.__init__.  A method  *)
(* of Table is an operator from the table to a result record               *)
(*   [t |-> the table as the call left it, exc |-> the exception that      *)
(*    escaped the call ("" when none), warn |-> the warnings it logged,    *)
(*    calls |-> the results of the methods it called, in call order].      *)
(* The U+2013 dash of the caption syntax is written "~": the module's      *)
(* strings are ASCII.                                                      *)
(***************************************************************************)
EXTENDS Integers, Sequences, FiniteSets, TLC

VARIABLES
    input,      \* the (title, rows) pair handed to transform()
    table,      \* the Table object transform() is working on
    pc,         \* the next thing transform() does
    calls,      \* the method calls made by the last pipeline step, in order
    failed,     \* the pipeline steps that raised, in order
    attempted,  \* the pipeline steps attempted so far, in order
    groups,     \* transform()'s result: group key -> list of emitted tables
    escaped,    \* the exception that escaped transformer.main ("" when none)
    main,       \* a run of transformer.main(pages)
    parse,      \* a run of parser.parse_content(headings, table)
    schedule,   \* a run of scheduler.schedule: its workers and its loop
    check       \* a run of captions.check_figure_number

vars == <<input, table, pc, calls, failed, attempted, groups, escaped,
          main, parse, schedule, check>>

-----------------------------------------------------------------------------
(* Bounds of the model.                                                    *)

\* Rows per table.
MaxRows == 2

\* Highest bit/byte position in a range.
MaxBit == 2

-----------------------------------------------------------------------------
(* Strings.                                                                *)

Char(s, i) == SubSeq(s, i, i)

\* The characters the model's strings use, in code point order.
Ascii == "\n -0123456789:ABCDEFGHIJKLMNOPQRSTUVWXYZ_abcdefghijklmnopqrstuvwxyz~"

Ord(c) == CHOOSE i \in 1..Len(Ascii) : Char(Ascii, i) = c

\* Python's a < b on strings.
RECURSIVE StrLess(_, _)
StrLess(a, b) ==
    IF a = "" THEN b # ""
    ELSE IF b = "" THEN FALSE
    ELSE IF Head(a) = Head(b) THEN StrLess(Tail(a), Tail(b))
    ELSE Ord(Head(a)) < Ord(Head(b))

\* needle in s
Contains(s, needle) ==
    \E i \in 1..(Len(s) - Len(needle) + 1) :
        SubSeq(s, i, i + Len(needle) - 1) = needle

UpperChars == "ABCDEFGHIJKLMNOPQRSTUVWXYZ"
LowerChars == "abcdefghijklmnopqrstuvwxyz"

LowerChar(c) ==
    IF \E i \in 1..Len(UpperChars) : Char(UpperChars, i) = c
    THEN Char(LowerChars, CHOOSE i \in 1..Len(UpperChars) : Char(UpperChars, i) = c)
    ELSE c

\* str.lower()
RECURSIVE Lower(_)
Lower(s) == IF s = "" THEN "" ELSE LowerChar(Head(s)) \o Lower(Tail(s))

\* str.replace(" ", "_")
RECURSIVE ReplaceSpaces(_)
ReplaceSpaces(s) ==
    IF s = "" THEN ""
    ELSE (IF Head(s) = " " THEN "_" ELSE Head(s)) \o ReplaceSpaces(Tail(s))

\* str.strip("h")
RECURSIVE LStripH(_)
LStripH(s) == IF s # "" /\ Head(s) = "h" THEN LStripH(Tail(s)) ELSE s

RECURSIVE RStripH(_)
RStripH(s) ==
    IF s # "" /\ Char(s, Len(s)) = "h" THEN RStripH(SubSeq(s, 1, Len(s) - 1)) ELSE s

StripH(s) == RStripH(LStripH(s))

HexDigits == "0123456789ABCDEF"

IsHexDigit(c) == \E i \in 1..Len(HexDigits) : Char(HexDigits, i) = c

\* [0-9A-F]+ over the whole of s
IsHexDigits(s) == s # "" /\ \A i \in 1..Len(s) : IsHexDigit(Char(s, i))

\* "$" also matches before a final newline.
DropFinalNewline(s) ==
    IF s # "" /\ Char(s, Len(s)) = "\n" THEN SubSeq(s, 1, Len(s) - 1) ELSE s

\* ^[0-9A-F]+h$ exactly, no final newline
IsHexValueExact(s) ==
    /\ Len(s) >= 2
    /\ Char(s, Len(s)) = "h"
    /\ IsHexDigits(SubSeq(s, 1, Len(s) - 1))

\* hex_value.match(s)
HexValueMatch(s) == IsHexValueExact(s) \/ IsHexValueExact(DropFinalNewline(s))

\* hex_range.match(s): ^[0-9A-F]+h to [0-9A-F]+h$
HexRangeMatch(s) ==
    \E i \in 2..Len(s) :
        /\ IsHexDigits(SubSeq(s, 1, i - 1))
        /\ Len(s) >= i + 5
        /\ SubSeq(s, i, i + 4) = "h to "
        /\ HexValueMatch(SubSeq(s, i + 5, Len(s)))


-----------------------------------------------------------------------------
(* Python values and row dicts.                                            *)

StrV(s) == [t |-> "str", v |-> s]
IntV(n) == [t |-> "int", v |-> n]
IntsV(q) == [t |-> "ints", v |-> q]
StrsV(q) == [t |-> "strs", v |-> q]
RowsV(q) == [t |-> "rows", v |-> q]

\* bool(x)
Truthy(x) ==
    CASE x.t = "int" -> x.v # 0
      [] x.t = "str" -> x.v # ""
      [] OTHER -> Len(x.v) > 0

Has(row, k) == k \in DOMAIN row

\* del row[k]
Del(row, k) == [x \in DOMAIN row \ {k} |-> row[x]]

\* row[k] = val
Put(row, k, val) == [x \in DOMAIN row \cup {k} |-> IF x = k THEN val ELSE row[x]]

\* row.get(k) is truthy
GetTruthy(row, k) == Has(row, k) /\ Truthy(row[k])

InSeq(x, s) == \E i \in 1..Len(s) : s[i] = x

Min(S) == CHOOSE x \in S : \A y \in S : x <= y

\* list.remove(x), x in the list
RemoveFirst(s, x) ==
    LET i == Min({j \in 1..Len(s) : s[j] = x})
    IN SubSeq(s, 1, i - 1) \o SubSeq(s, i + 1, Len(s))

\* [row for row in rows if Keep(row)]
Filter(rows, Keep(_)) == SelectSeq(rows, Keep)

\* The insertion order of a row dict's keys: parse_row (src/nvme_lint/parser.py)
\* inserts "children" first and then the columns from left to right; the
\* model's tables keep their columns in this order.
KeyOrder ==
    <<"children", "bits", "bytes", "value", "description", "name", "brief",
      "verbose", "definition">>

\* list(row.keys())
Keys(row) == SelectSeq(KeyOrder, LAMBDA k : k \in DOMAIN row)

\* The result of a method call.
Res(t, exc, warn, cs) == [t |-> t, exc |-> exc, warn |-> warn, calls |-> cs]

Ok(t) == Res(t, "", {}, <<>>)

\* The record kept of a call of method m on table pre with result r.
CallRec(m, pre, r) == [m |-> m, pre |-> pre, t |-> r.t, exc |-> r.exc, warn |-> r.warn]

-----------------------------------------------------------------------------
(* class Table                                                             *)

\* Table.create_headings: the exception it raises ("" when none).
CreateHeadingsExc(rows) ==
    IF Len(rows) = 0 THEN "IndexError"
    ELSE IF Has(rows[1], "description") /\ rows[1]["description"] = StrV("Reserved")
              /\ Len(rows) < 2
         THEN "IndexError"
         ELSE ""

\* Table.create_headings
CreateHeadings(rows) ==
    IF Has(rows[1], "description") /\ rows[1]["description"] = StrV("Reserved")
    THEN Keys(rows[2])
    ELSE Keys(rows[1])

\* Table.__init__
NewTable(title, rows) ==
    [title |-> title, rows |-> rows, number |-> 0, group |-> "",
     spec_type |-> "", c_type |-> "", headings |-> CreateHeadings(rows)]

\* Table.remove_empty_children
RemoveEmptyChildren(t) ==
    LET rows == t.rows
        missing == {i \in 1..Len(rows) : ~Has(rows[i], "children")}
        stop == IF missing = {} THEN Len(rows) + 1 ELSE Min(missing)
        rows1 == [i \in 1..Len(rows) |->
                    IF i < stop /\ ~Truthy(rows[i]["children"])
                    THEN Del(rows[i], "children") ELSE rows[i]]
        t1 == [t EXCEPT !.rows = rows1]
    IN IF missing # {} THEN Res(t1, "KeyError", {}, <<>>)
       ELSE IF \A i \in 1..Len(rows1) : ~Has(rows1[i], "children")
            THEN IF InSeq("children", t.headings)
                 THEN Ok([t1 EXCEPT !.headings = RemoveFirst(t.headings, "children")])
                 ELSE Res(t1, "ValueError", {}, <<>>)
            ELSE Ok(t1)

\* Table.enforce_headings
EnforceHeadings(t) ==
    IF InSeq("bits", t.headings)
    THEN Ok([t EXCEPT !.rows = Filter(t.rows, LAMBDA row : GetTruthy(row, "bits"))])
    ELSE IF InSeq("bytes", t.headings)
         THEN Ok([t EXCEPT !.rows = Filter(t.rows, LAMBDA row : GetTruthy(row, "bytes"))])
         ELSE Ok(t)

-----------------------------------------------------------------------------
(* Bits and bytes.  Under "bits"/"bytes" a row holds a list of integers or *)
(* of strings (as parse_row stores it) or, once consolidated, an integer.  *)

\* The exception of key=lambda row: row[h][0] on one row ("" when none).
SortKeyExc(row, h) ==
    IF ~Has(row, h) THEN "KeyError"
    ELSE IF row[h].t = "int" THEN "TypeError"
    ELSE IF Len(row[h].v) = 0 THEN "IndexError"
    ELSE ""

\* row[h][0], tagged with its type.
SortKey(row, h) == [t |-> IF row[h].t = "ints" THEN "int" ELSE "str", v |-> row[h].v[1]]

\* a < b on two keys of one type
KeyLess(a, b) == IF a.t = "int" THEN a.v < b.v ELSE StrLess(a.v, b.v)

\* The first row, in order, for which Exc(row) is an exception; 0 when none.
FirstExc(rows, Exc(_)) ==
    LET bad == {i \in 1..Len(rows) : Exc(rows[i]) # ""}
    IN IF bad = {} THEN 0 ELSE Min(bad)

\* One step of a stable sort: row goes after every row that does not sort
\* after it.
InsertRow(acc, row, h, reverse) ==
    LET after == {i \in 1..Len(acc) :
                    IF reverse
                    THEN KeyLess(SortKey(acc[i], h), SortKey(row, h))
                    ELSE KeyLess(SortKey(row, h), SortKey(acc[i], h))}
        p == IF after = {} THEN Len(acc) + 1 ELSE Min(after)
    IN SubSeq(acc, 1, p - 1) \o <<row>> \o SubSeq(acc, p, Len(acc))

RECURSIVE SortFrom(_, _, _, _)
SortFrom(acc, rest, h, reverse) ==
    IF rest = <<>> THEN acc
    ELSE SortFrom(InsertRow(acc, Head(rest), h, reverse), Tail(rest), h, reverse)

\* The exception of sorted(rows, key=lambda row: row[h][0], reverse=...),
\* called on two rows or more: a key that cannot be taken, or keys of two
\* types, which cannot be compared.
SortedExc(rows, h) ==
    LET i == FirstExc(rows, LAMBDA row : SortKeyExc(row, h))
    IN IF i # 0 THEN SortKeyExc(rows[i], h)
       ELSE IF \E j, k \in 1..Len(rows) : SortKey(rows[j], h).t # SortKey(rows[k], h).t
            THEN "TypeError"
            ELSE ""

\* sorted(rows, key=lambda row: row[h][0], reverse=reverse)
Sorted(rows, h, reverse) == SortFrom(<<>>, rows, h, reverse)

\* One of check_order's two tests, on heading h: when h is a heading, the
\* table has two rows or more and sorting changes it, warn and sort;
\* otherwise the result is that of what follows (the elif, or nothing).
CheckOrderOn(t, h, reverse, otherwise) ==
    IF InSeq(h, t.headings) /\ Len(t.rows) > 1
    THEN IF SortedExc(t.rows, h) # ""
         THEN Res(t, SortedExc(t.rows, h), {}, <<>>)
         ELSE IF Sorted(t.rows, h, reverse) # t.rows
              THEN Res([t EXCEPT !.rows = Sorted(t.rows, h, reverse)], "",
                       {h \o " are in wrong order"}, <<>>)
              ELSE otherwise
    ELSE otherwise

\* Table.check_order
CheckOrder(t) ==
    CheckOrderOn(t, "bits", TRUE, CheckOrderOn(t, "bytes", FALSE, Ok(t)))

\* The exception of building check_overlap's / check_for_holes's sequence
\* from one row ("" when none): len(row[h]), row[h][0], row[h][1],
\* range(row[h][1], row[h][0]+1).
PositionsExc(row, h) ==
    IF ~Has(row, h) THEN "KeyError"
    ELSE IF row[h].t = "int" THEN "TypeError"
    ELSE IF Len(row[h].v) = 0 THEN "IndexError"
    ELSE IF row[h].t = "strs" /\ Len(row[h].v) > 1 THEN "TypeError"
    ELSE ""

\* list(range(lo, hi + 1))
Range(lo, hi) == [i \in 1..(hi - lo + 1) |-> lo + i - 1]

\* A faulty flattening that leaves out a range's high end (lo..hi-1).
IntPositionsHalfOpen(row, h) ==
    IF row[h].t # "ints" THEN <<>>
    ELSE IF Len(row[h].v) = 1 THEN <<row[h].v[1]>>
    ELSE Range(row[h].v[2], row[h].v[1] - 1)

\* What one row adds to the sequence: its integer positions ...
IntPositions(row, h) ==
    IF row[h].t # "ints" THEN <<>>
    ELSE IF Len(row[h].v) = 1 THEN <<row[h].v[1]>>
    ELSE Range(row[h].v[2], row[h].v[1])

\* ... or its one string.
StrPositions(row, h) == IF row[h].t = "strs" THEN <<row[h].v[1]>> ELSE <<>>

RECURSIVE FlattenInts(_, _)
FlattenInts(rows, h) ==
    IF rows = <<>> THEN <<>>
    ELSE IntPositions(Head(rows), h) \o FlattenInts(Tail(rows), h)

RECURSIVE FlattenStrs(_, _)
FlattenStrs(rows, h) ==
    IF rows = <<>> THEN <<>>
    ELSE StrPositions(Head(rows), h) \o FlattenStrs(Tail(rows), h)

SeqToSet(s) == {s[i] : i \in 1..Len(s)}

\* How many items of s are less than v, for every item v of s.
CountBelow(s) ==
    [v \in SeqToSet(s) |-> Cardinality({k \in 1..Len(s) : s[k] < v})]

\* How many items of s are v or less, for every item v of s.
CountUpTo(s) ==
    [v \in SeqToSet(s) |-> Cardinality({k \in 1..Len(s) : s[k] <= v})]

\* The sorted list, given the two counts: place i holds the item with fewer
\* than i items below it and i or more items up to it.
SortedByCount(s, below, upto) ==
    [i \in 1..Len(s) |-> CHOOSE v \in SeqToSet(s) : below[v] < i /\ i <= upto[v]]

\* A faulty check_for_holes that forgets sequence.sort().
SortIntsForgotten(s) == s

\* sequence.sort() on integers
SortInts(s) == SortedByCount(s, CountBelow(s), CountUpTo(s))

Abs(x) == IF x < 0 THEN -x ELSE x

\* Table.check_overlap
CheckOverlap(t, h) ==
    LET i == FirstExc(t.rows, LAMBDA row : PositionsExc(row, h))
        ints == FlattenInts(t.rows, h)
        strs == FlattenStrs(t.rows, h)
    IN IF i # 0 THEN Res(t, PositionsExc(t.rows[i], h), {}, <<>>)
       ELSE IF Len(ints) + Len(strs)
                 # Cardinality(SeqToSet(ints)) + Cardinality(SeqToSet(strs))
            THEN Res(t, "", {"overlap of " \o h}, <<>>)
            ELSE Ok(t)

\* Table.check_for_holes
CheckForHoles(t, h) ==
    LET i == FirstExc(t.rows, LAMBDA row : PositionsExc(row, h))
        ints == FlattenInts(t.rows, h)
        strs == FlattenStrs(t.rows, h)
        sequence == SortInts(ints)
    IN IF i # 0 THEN Res(t, PositionsExc(t.rows[i], h), {}, <<>>)
       \* sort() cannot compare str with int; abs(j - i) cannot subtract strs
       ELSE IF (Len(strs) > 0 /\ Len(ints) > 0) \/ Len(strs) > 1
            THEN Res(t, "TypeError", {}, <<>>)
            ELSE IF \E k \in 1..(Len(sequence) - 1) :
                        Abs(sequence[k + 1] - sequence[k]) > 1
                 THEN Res(t, "", {"hole in " \o h}, <<>>)
                 ELSE Ok(t)

\* The exception of calculate_bits_and_bytes on one row ("" when none).
CalculateExc(row, h) ==
    IF ~Has(row, h) THEN "KeyError"
    ELSE IF row[h].t = "int" THEN "TypeError"
    ELSE IF Len(row[h].v) = 0 THEN "IndexError"
    ELSE ""

\* A faulty consolidation that takes hi - lo for the width of [hi, lo].
CalculateRowExclusive(row, h) ==
    IF row[h].t # "ints" THEN row
    ELSE IF Len(row[h].v) = 1 THEN Put(row, h, IntV(1))
    ELSE Put(row, h, IntV(row[h].v[1] - row[h].v[2]))

\* What calculate_bits_and_bytes makes of one row.
CalculateRow(row, h) ==
    IF row[h].t # "ints" THEN row
    ELSE IF Len(row[h].v) = 1 THEN Put(row, h, IntV(1))
    ELSE Put(row, h, IntV(row[h].v[1] - row[h].v[2] + 1))

\* Table.calculate_bits_and_bytes: the rows before the one that raises are
\* consolidated.
CalculateBitsAndBytes(t, h) ==
    LET i == FirstExc(t.rows, LAMBDA row : CalculateExc(row, h))
        stop == IF i = 0 THEN Len(t.rows) + 1 ELSE i
        rows1 == [k \in 1..Len(t.rows) |->
                    IF k < stop THEN CalculateRow(t.rows[k], h) ELSE t.rows[k]]
    IN Res([t EXCEPT !.rows = rows1],
           IF i = 0 THEN "" ELSE CalculateExc(t.rows[i], h), {}, <<>>)

\* The exception of sum(row[h] for row in rows) at one row ("" when none).
SumExc(row, h) ==
    IF ~Has(row, h) THEN "KeyError"
    ELSE IF row[h].t # "int" THEN "TypeError"
    ELSE ""

RECURSIVE SumRows(_, _)
SumRows(rows, h) == IF rows = <<>> THEN 0 ELSE Head(rows)[h].v + SumRows(Tail(rows), h)

RECURSIVE IsPowerOfTwo(_)
IsPowerOfTwo(n) == n = 1 \/ (n > 1 /\ n % 2 = 0 /\ IsPowerOfTwo(n \div 2))

\* math.log(n, 2).is_integer() for n > 0.  The quotient of the two float
\* logarithms is an integer exactly for the powers of two below 2^29 (at
\* 2^29 it is 29.000000000000004); the model's sums stay far below that.
LogIsInteger(n) == IsPowerOfTwo(n)

\* Table.check_sum
CheckSum(t, h) ==
    LET i == FirstExc(t.rows, LAMBDA row : SumExc(row, h))
        row_sum == SumRows(t.rows, h)
    IN IF i # 0 THEN Res(t, SumExc(t.rows[i], h), {}, <<>>)
       \* math.log raises "math domain error"
       ELSE IF row_sum <= 0 THEN Res(t, "ValueError", {}, <<>>)
       ELSE IF ~LogIsInteger(row_sum)
            THEN Res(t, "", {"sum of " \o h \o " is not a power of 2"}, <<>>)
            ELSE Ok(t)

\* The heading clean_bits_and_bytes works on ("" when none).
BitsOrBytes(t) ==
    IF InSeq("bits", t.headings) THEN "bits"
    ELSE IF InSeq("bytes", t.headings) THEN "bytes"
    ELSE ""

\* The result acc of the calls made so far, with the call of method name
\* on acc.t, which gave r, added.
Record(acc, name, r) ==
    Res(r.t, r.exc, acc.warn \cup r.warn, acc.calls \o <<CallRec(name, acc.t, r)>>)

\* The methods clean_bits_and_bytes calls, in order.
BitsMethodNames ==
    <<"check_order", "check_for_holes", "check_overlap", "calculate_bits_and_bytes",
      "check_sum">>

\* self.<name>(heading)
BitsMethod(name, t, h) ==
    CASE name = "check_order" -> CheckOrder(t)
      [] name = "check_for_holes" -> CheckForHoles(t, h)
      [] name = "check_overlap" -> CheckOverlap(t, h)
      [] name = "calculate_bits_and_bytes" -> CalculateBitsAndBytes(t, h)
      [] name = "check_sum" -> CheckSum(t, h)

\* The calls of clean_bits_and_bytes one after the other, up to the first
\* that raises.
RECURSIVE RunBitsMethods(_, _, _)
RunBitsMethods(acc, h, names) ==
    IF names = <<>> \/ acc.exc # "" THEN acc
    ELSE RunBitsMethods(Record(acc, Head(names), BitsMethod(Head(names), acc.t, h)),
                        h, Tail(names))

\* clean_bits_and_bytes' last statement: keep the rows whose row[heading]
\* is an int.
KeepIntegers(acc, h) ==
    IF acc.exc # "" THEN acc
    ELSE IF FirstExc(acc.t.rows, LAMBDA row : IF Has(row, h) THEN "" ELSE "KeyError") # 0
         THEN Res(acc.t, "KeyError", acc.warn, acc.calls)
         ELSE Res([acc.t EXCEPT !.rows = Filter(acc.t.rows, LAMBDA row : row[h].t = "int")],
                  "", acc.warn, acc.calls)

\* Table.clean_bits_and_bytes
CleanBitsAndBytes(t) ==
    IF BitsOrBytes(t) = "" THEN Ok(t)
    ELSE KeepIntegers(RunBitsMethods(Ok(t), BitsOrBytes(t), BitsMethodNames), BitsOrBytes(t))

\* Table.reverse_bits_rows
ReverseBitsRows(t) ==
    IF InSeq("bits", t.headings)
    THEN Ok([t EXCEPT !.rows = [i \in 1..Len(t.rows) |-> t.rows[Len(t.rows) + 1 - i]]])
    ELSE Ok(t)

-----------------------------------------------------------------------------
(* Hexadecimal columns.                                                    *)

\* hex_value.match(x) or hex_range.match(x) raises TypeError unless x is a
\* string.
IsHexCell(x) == x.t = "str" /\ (HexValueMatch(x.v) \/ HexRangeMatch(x.v))

\* "hex-" in heading
IsHexHeading(heading) == Contains(heading, "hex-")

\* detect_hex_columns' inner loop for one heading: row["hex-" + old] =
\* row[old]; del row[old], row after row.  The rows before a row without
\* the key are renamed, and the heading is renamed only when every row was.
RenameColumn(t, index) ==
    LET old == t.headings[index]
        i == FirstExc(t.rows, LAMBDA row : IF Has(row, old) THEN "" ELSE "KeyError")
        stop == IF i = 0 THEN Len(t.rows) + 1 ELSE i
        rows1 == [k \in 1..Len(t.rows) |->
                    IF k < stop
                    THEN Del(Put(t.rows[k], "hex-" \o old, t.rows[k][old]), old)
                    ELSE t.rows[k]]
    IN IF i # 0 THEN Res([t EXCEPT !.rows = rows1], "KeyError", {}, <<>>)
       ELSE Ok([t EXCEPT !.rows = rows1, !.headings[index] = "hex-" \o old])

RECURSIVE RenameColumns(_, _)
RenameColumns(t, indexes) ==
    IF indexes = <<>> THEN Ok(t)
    ELSE LET r == RenameColumn(t, Head(indexes))
         IN IF r.exc # "" THEN r ELSE RenameColumns(r.t, Tail(indexes))

\* The elements of a set of integers in increasing order.
Ascending(S) ==
    [j \in 1..Cardinality(S) |->
        CHOOSE i \in S : Cardinality({x \in S : x < i}) = j - 1]

\* The columns detect_hex_columns finds: those with a hex value or range in
\* some row.  A value that is no string raises TypeError, which is caught.
HexColumns(t) ==
    {i \in 1..Len(t.headings) :
        \E k \in 1..Len(t.rows) :
            Has(t.rows[k], t.headings[i]) /\ IsHexCell(t.rows[k][t.headings[i]])}

\* Table.detect_hex_columns.  headings_to_change is a set of small
\* integers, which Python iterates in increasing order.
DetectHexColumns(t) == RenameColumns(t, Ascending(HexColumns(t)))

\* The exception of matching row[heading] against the two patterns.
HexFilterExc(row, heading) ==
    IF ~Has(row, heading) THEN "KeyError"
    ELSE IF row[heading].t # "str" THEN "TypeError"
    ELSE ""

\* Table.remove_hex_ranges
RemoveHexRanges(t, heading) ==
    LET i == FirstExc(t.rows, LAMBDA row : HexFilterExc(row, heading))
    IN IF i # 0 THEN Res(t, HexFilterExc(t.rows[i], heading), {}, <<>>)
       ELSE Ok([t EXCEPT !.rows = Filter(t.rows, LAMBDA row : ~HexRangeMatch(row[heading].v))])

\* The exception of row[heading].strip("h").
HexFormatExc(row, heading) ==
    IF ~Has(row, heading) THEN "KeyError"
    ELSE IF row[heading].t # "str" THEN "AttributeError"
    ELSE ""

\* Table.change_hex_format
ChangeHexFormat(t, heading) ==
    LET i == FirstExc(t.rows, LAMBDA row : HexFormatExc(row, heading))
        stop == IF i = 0 THEN Len(t.rows) + 1 ELSE i
        rows1 == [k \in 1..Len(t.rows) |->
                    IF k < stop
                    THEN Put(t.rows[k], heading, StrV("0x" \o StripH(t.rows[k][heading].v)))
                    ELSE t.rows[k]]
    IN Res([t EXCEPT !.rows = rows1],
           IF i = 0 THEN "" ELSE HexFormatExc(t.rows[i], heading), {}, <<>>)

\* clean_hex's first statement for one hex heading: keep the rows whose
\* value matches one of the two patterns.
KeepHexCells(acc, heading) ==
    IF FirstExc(acc.t.rows, LAMBDA row : HexFilterExc(row, heading)) # 0
    THEN Res(acc.t,
             HexFilterExc(acc.t.rows[FirstExc(acc.t.rows, LAMBDA row : HexFilterExc(row, heading))],
                          heading),
             acc.warn, acc.calls)
    ELSE Res([acc.t EXCEPT !.rows = Filter(acc.t.rows, LAMBDA row : IsHexCell(row[heading]))],
             "", acc.warn, acc.calls)

\* self.remove_hex_ranges(heading), then self.change_hex_format(heading)
HexMethodNames == <<"remove_hex_ranges", "change_hex_format">>

HexMethod(name, t, heading) ==
    CASE name = "remove_hex_ranges" -> RemoveHexRanges(t, heading)
      [] name = "change_hex_format" -> ChangeHexFormat(t, heading)

RECURSIVE RunHexMethods(_, _, _)
RunHexMethods(acc, heading, names) ==
    IF names = <<>> \/ acc.exc # "" THEN acc
    ELSE RunHexMethods(Record(acc, Head(names), HexMethod(Head(names), acc.t, heading)),
                       heading, Tail(names))

\* clean_hex's loop over the hex headings, up to the first exception.
RECURSIVE CleanHexColumns(_, _)
CleanHexColumns(acc, hex_headings) ==
    IF hex_headings = <<>> \/ acc.exc # "" THEN acc
    ELSE CleanHexColumns(
             RunHexMethods(KeepHexCells(acc, Head(hex_headings)), Head(hex_headings),
                           HexMethodNames),
             Tail(hex_headings))

\* clean_hex after detect_hex_columns: the hex headings are listed once,
\* before the loop.
CleanDetected(acc) == CleanHexColumns(acc, SelectSeq(acc.t.headings, IsHexHeading))

\* Table.clean_hex
CleanHex(t) == CleanDetected(Record(Ok(t), "detect_hex_columns", DetectHexColumns(t)))

-----------------------------------------------------------------------------
(* Names, titles and types.                                                *)

\* The value generate_name derives the name from, for a row without "name".
NameSource(row) ==
    IF Has(row, "description") /\ row["description"] = StrV("Reserved") THEN StrV("rsvd")
    ELSE IF Has(row, "brief") THEN row["brief"]
    ELSE IF Has(row, "definition") THEN row["definition"]
    ELSE IF Has(row, "description") THEN row["description"]
    ELSE StrV("skip")

\* .lower() exists on strings only.
NameExc(row) ==
    IF ~Has(row, "name") /\ NameSource(row).t # "str" THEN "AttributeError" ELSE ""

NameRow(row) ==
    IF Has(row, "name") THEN row
    ELSE IF Has(row, "description") /\ row["description"] = StrV("Reserved")
         THEN Put(row, "name", StrV("rsvd"))
         ELSE Put(row, "name", StrV(ReplaceSpaces(Lower(NameSource(row).v))))

\* Table.generate_name
GenerateName(t) ==
    LET i == FirstExc(t.rows, LAMBDA row : NameExc(row))
        stop == IF i = 0 THEN Len(t.rows) + 1 ELSE i
        rows1 == [k \in 1..Len(t.rows) |->
                    IF k < stop THEN NameRow(t.rows[k]) ELSE t.rows[k]]
    IN Res([t EXCEPT !.rows = rows1], IF i = 0 THEN "" ELSE "AttributeError", {}, <<>>)

Digits == "0123456789"

IsDigit(c) == \E i \in 1..Len(Digits) : Char(Digits, i) = c

DigitValue(c) == (CHOOSE i \in 1..Len(Digits) : Char(Digits, i) = c) - 1

\* int(s) for a string of digits
RECURSIVE ToInt(_)
ToInt(s) ==
    IF s = "" THEN 0
    ELSE 10 * ToInt(SubSeq(s, 1, Len(s) - 1)) + DigitValue(Char(s, Len(s)))

\* str(n) for n >= 0
RECURSIVE ToStr(_)
ToStr(n) ==
    IF n < 10 THEN Char(Digits, n + 1)
    ELSE ToStr(n \div 10) \o Char(Digits, (n % 10) + 1)

\* The dash of "Figure N: Group - Title" (U+2013).
Dash == "~"

\* The length of the longest prefix of s made of digits: \d+ is greedy and
\* what follows it, ":", is no digit.
DigitsPrefix(s) ==
    LET stops == {i \in 1..Len(s) : ~IsDigit(Char(s, i))}
    IN IF stops = {} THEN Len(s) ELSE Min(stops) - 1

\* "." matches anything but a newline: the part of s before its first one.
FirstLine(s) ==
    LET nl == {i \in 1..Len(s) : Char(s, i) = "\n"}
    IN IF nl = {} THEN s ELSE SubSeq(s, 1, Min(nl) - 1)

\* The match of r"Figure (?P<number>\d+): " at the start of title: the
\* number's digits and the rest of the title's line; matched |-> FALSE when
\* there is none.
FigurePrefix(title) ==
    LET after == SubSeq(title, 8, Len(title))
        n == DigitsPrefix(after)
    IN IF Len(title) >= 7 /\ SubSeq(title, 1, 7) = "Figure " /\ n > 0
          /\ Len(after) >= n + 2 /\ SubSeq(after, n + 1, n + 2) = ": "
       THEN [matched |-> TRUE, number |-> SubSeq(after, 1, n),
             rest |-> FirstLine(SubSeq(after, n + 3, Len(after)))]
       ELSE [matched |-> FALSE, number |-> "", rest |-> ""]

\* Where " - " may split rest into a group and a title, both non-empty.
DashSplits(rest) ==
    {i \in 2..(Len(rest) - 3) : SubSeq(rest, i, i + 2) = " " \o Dash \o " "}

Max(S) == CHOOSE x \in S : \A y \in S : x >= y

\* A faulty process_title that knows the form "Figure N: Title" only.
ProcessTitleUngrouped(t) ==
    IF FigurePrefix(t.title).matched /\ FigurePrefix(t.title).rest # ""
    THEN Ok([t EXCEPT !.number = ToInt(FigurePrefix(t.title).number),
                      !.title = Lower(FigurePrefix(t.title).rest)])
    ELSE Ok(t)

\* Table.process_title.  The group's ".+" is greedy: it ends at the last
\* dash that leaves a title.
ProcessTitle(t) ==
    LET m == FigurePrefix(t.title)
        p == Max(DashSplits(m.rest))
    IN IF m.matched /\ DashSplits(m.rest) # {}
       THEN Ok([t EXCEPT !.number = ToInt(m.number),
                         !.group = ReplaceSpaces(Lower(SubSeq(m.rest, 1, p - 1))),
                         !.title = Lower(SubSeq(m.rest, p + 3, Len(m.rest)))])
       ELSE IF m.matched /\ m.rest # ""
            THEN Ok([t EXCEPT !.number = ToInt(m.number), !.title = Lower(m.rest)])
            ELSE Ok(t)

\* Table.determine_c_type
DetermineCType(t) ==
    IF \E i \in 1..Len(t.headings) : IsHexHeading(t.headings[i])
    THEN Ok([t EXCEPT !.c_type = "enum"])
    ELSE Ok([t EXCEPT !.c_type = "struct"])

\* Table.determine_spec_type
DetermineSpecType(t) ==
    IF Contains(t.title, "command dword") THEN Ok([t EXCEPT !.spec_type = "command"])
    ELSE IF Contains(t.title, "data pointer") THEN Ok([t EXCEPT !.spec_type = "data pointer"])
    ELSE Ok(t)

-----------------------------------------------------------------------------
(* Children and the pipeline.                                              *)

\* getattr(table, name)() for the methods process_children runs.
ChildMethod(name, t) ==
    CASE name = "remove_empty_children" -> RemoveEmptyChildren(t)
      [] name = "enforce_headings" -> EnforceHeadings(t)
      [] name = "clean_bits_and_bytes" -> CleanBitsAndBytes(t)
      [] name = "clean_hex" -> CleanHex(t)
      [] name = "reverse_bits_rows" -> ReverseBitsRows(t)

\* process_children's method_names
ChildMethodNames ==
    <<"remove_empty_children", "enforce_headings", "clean_bits_and_bytes",
      "clean_hex", "reverse_bits_rows">>

\* The result acc of the calls made so far, with the call of method name
\* on acc.t, which gave r, added and its exception caught.
RecordCaught(acc, name, r) ==
    Res(r.t, "", acc.warn \cup r.warn, acc.calls \o <<CallRec(name, acc.t, r)>>)

\* process_children's loop over method_names: a method that raises is
\* logged and the next one runs on the table as it is.
RECURSIVE RunChildMethods(_, _)
RunChildMethods(acc, names) ==
    IF names = <<>> THEN acc
    ELSE RunChildMethods(RecordCaught(acc, Head(names), ChildMethod(Head(names), acc.t)),
                         Tail(names))

\* row["children"] = table.rows, for row k and the child table's result r.
WriteBack(acc, k, r) ==
    Res([acc.t EXCEPT !.rows[k] = Put(acc.t.rows[k], "children", RowsV(r.t.rows))],
        "", acc.warn \cup r.warn, acc.calls \o r.calls)

\* process_children's loop body for row k: Table(child_title, ...) is not
\* inside the try.
ProcessRowChildren(acc, k) ==
    IF ~Has(acc.t.rows[k], "children") THEN acc
    ELSE IF CreateHeadingsExc(acc.t.rows[k]["children"].v) # ""
         THEN Res(acc.t, CreateHeadingsExc(acc.t.rows[k]["children"].v), acc.warn, acc.calls)
         ELSE WriteBack(acc, k,
                  RunChildMethods(
                      Ok(NewTable("Figure " \o ToStr(acc.t.number) \o ":children",
                                  acc.t.rows[k]["children"].v)),
                      ChildMethodNames))

\* process_children from row k on, up to the first exception.
RECURSIVE ProcessChildrenFrom(_, _)
ProcessChildrenFrom(acc, k) ==
    IF k > Len(acc.t.rows) \/ acc.exc # "" THEN acc
    ELSE ProcessChildrenFrom(ProcessRowChildren(acc, k), k + 1)

\* Table.process_children
ProcessChildren(t) == ProcessChildrenFrom(Ok(t), 1)

\* transform's method_names
MethodNames ==
    <<"remove_empty_children", "enforce_headings", "clean_bits_and_bytes",
      "clean_hex", "reverse_bits_rows", "generate_name", "process_title",
      "determine_spec_type", "determine_c_type", "process_children">>

\* A faulty loop that gives up on the table's remaining methods when one
\* raises.
AfterMethodAbort(i, exc) ==
    IF exc = "" /\ i < Len(MethodNames) THEN MethodNames[i + 1] ELSE "emit"

\* What transform does after the method at position i of method_names,
\* whether it returned or raised (exc): the exception is logged and the
\* loop goes on.
AfterMethod(i, exc) == IF i < Len(MethodNames) THEN MethodNames[i + 1] ELSE "emit"

\* The dict transform emits for a table.
Transformed(t) ==
    [title |-> t.title, number |-> t.number, rows |-> t.rows,
     spec_type |-> t.spec_type, c_type |-> t.c_type, headings |-> t.headings]

\* groups[table.group].append(...) or groups[table.group] = [...]
AddToGroup(g, t) ==
    IF t.group \in DOMAIN g
    THEN [g EXCEPT ![t.group] = Append(@, Transformed(t))]
    ELSE g @@ (t.group :> <<Transformed(t)>>)

-----------------------------------------------------------------------------
(* transformer.main: flatten_pages, transform, collect_types and           *)
(* process_commands.  A dict is a sequence of entries [k |-> key,          *)
(* v |-> value] in insertion order; pages.values() is a sequence of such   *)
(* dicts.                                                                  *)

\* The place of key k in dict d; 0 when d has no such key.
IndexOf(d, k) ==
    IF \E i \in 1..Len(d) : d[i].k = k
    THEN Min({i \in 1..Len(d) : d[i].k = k})
    ELSE 0

\* A faulty merge that keeps a caption's last page only.
FlattenEntryOverwrite(tables, e) ==
    IF IndexOf(tables, e.k) # 0
    THEN [tables EXCEPT ![IndexOf(tables, e.k)].v = e.v]
    ELSE Append(tables, e)

\* flatten_pages: tables[k] += v or tables[k] = v
FlattenEntry(tables, e) ==
    IF IndexOf(tables, e.k) # 0
    THEN [tables EXCEPT ![IndexOf(tables, e.k)].v = @ \o e.v]
    ELSE Append(tables, e)

\* flatten_pages' inner loop over one page
RECURSIVE FlattenPage(_, _)
FlattenPage(tables, page) ==
    IF page = <<>> THEN tables
    ELSE FlattenPage(FlattenEntry(tables, Head(page)), Tail(page))

\* flatten_pages' outer loop
RECURSIVE FlattenFrom(_, _)
FlattenFrom(tables, pages) ==
    IF pages = <<>> THEN tables
    ELSE FlattenFrom(FlattenPage(tables, Head(pages)), Tail(pages))

\* flatten_pages
FlattenPages(pages) == FlattenFrom(<<>>, pages)

\* getattr(table, name)() for the methods transform runs.
TableMethod(name, t) ==
    CASE name = "generate_name" -> GenerateName(t)
      [] name = "process_title" -> ProcessTitle(t)
      [] name = "determine_spec_type" -> DetermineSpecType(t)
      [] name = "determine_c_type" -> DetermineCType(t)
      [] name = "process_children" -> ProcessChildren(t)
      [] OTHER -> ChildMethod(name, t)

\* transform's loop over method_names for one table: a method that raises
\* is logged and the next one runs on the table as it is, so that no
\* exception ends the loop.
RECURSIVE RunMethods(_, _)
RunMethods(acc, names) ==
    IF names = <<>> \/ acc.exc # "" THEN acc
    ELSE RunMethods(RecordCaught(acc, Head(names), TableMethod(Head(names), acc.t)),
                    Tail(names))

\* groups[table.group].append(...) or groups[table.group] = [...], on the
\* dict in insertion order.
AddTable(gs, t) ==
    IF IndexOf(gs, t.group) # 0
    THEN [gs EXCEPT ![IndexOf(gs, t.group)].v = Append(@, Transformed(t))]
    ELSE Append(gs, [k |-> t.group, v |-> <<Transformed(t)>>])

\* transform's loop over the tables, up to the first Table() that raises.
RECURSIVE TransformFrom(_, _)
TransformFrom(acc, tables) ==
    IF tables = <<>> \/ acc.exc # "" THEN acc
    ELSE IF CreateHeadingsExc(Head(tables).v) # ""
         THEN [groups |-> acc.groups, exc |-> CreateHeadingsExc(Head(tables).v)]
         ELSE TransformFrom(
                  [groups |-> AddTable(acc.groups,
                                  RunMethods(Ok(NewTable(Head(tables).k, Head(tables).v)),
                                             MethodNames).t),
                   exc |-> ""],
                  Tail(tables))

\* transform
Transform(tables) == TransformFrom([groups |-> <<>>, exc |-> ""], tables)

\* A table after del table["c_type"]; del table["spec_type"].
Untyped(member) ==
    [title |-> member.title, number |-> member.number, rows |-> member.rows,
     headings |-> member.headings]

\* A faulty aggregate that calls a group an enum when one member is.
CollectCTypeAny(tables) ==
    IF \E i \in 1..Len(tables) : tables[i].c_type = "enum" THEN "enum"
    ELSE IF \A i \in 1..Len(tables) : tables[i].c_type = "struct" THEN "struct"
    ELSE "skip"

\* collect_types: the c type of a group
CollectCType(tables) ==
    IF \A i \in 1..Len(tables) : tables[i].c_type = "enum" THEN "enum"
    ELSE IF \A i \in 1..Len(tables) : tables[i].c_type = "struct" THEN "struct"
    ELSE "skip"

\* collect_types: the spec type of a group
CollectSpecType(tables) ==
    IF \E i \in 1..Len(tables) : Contains(tables[i].title, "command dword")
    THEN "command"
    ELSE ""

\* collect_types
CollectTypes(gs) ==
    [i \in 1..Len(gs) |->
        [k |-> gs[i].k,
         v |-> [tables |-> [j \in 1..Len(gs[i].v) |-> Untyped(gs[i].v[j])],
                spec_type |-> CollectSpecType(gs[i].v),
                c_type |-> CollectCType(gs[i].v)]]]

\* The command dwords of a command: range(0, 16).
Dwords == 16

\* gen_empty_commands; commands[i] is at place i + 1.
GenEmptyCommands ==
    [i \in 1..Dwords |->
        [headings |-> <<"bits", "name">>, number |-> -1,
         rows |-> <<("bits" :> IntV(32)) @@ ("name" :> StrV("cdw" \o ToStr(i - 1)))>>,
         title |-> "", type |-> 32]]

\* re.findall(r"dword (?P<number>\d+)", s) from position i on.
RECURSIVE FindDwords(_, _)
FindDwords(s, i) ==
    IF i + 6 > Len(s) THEN <<>>
    ELSE IF SubSeq(s, i, i + 5) = "dword " /\ IsDigit(Char(s, i + 6))
         THEN <<SubSeq(s, i + 6, i + 5 + DigitsPrefix(SubSeq(s, i + 6, Len(s))))>>
              \o FindDwords(s, i + 6 + DigitsPrefix(SubSeq(s, i + 6, Len(s))))
         ELSE FindDwords(s, i + 1)

\* table.update({"type": type})
Typed(member, type) ==
    [title |-> member.title, number |-> member.number, rows |-> member.rows,
     headings |-> member.headings, type |-> type]

\* The warning of process_commands for a table whose bits do not sum up.
SumWarning(member, type) ==
    "Figure " \o ToStr(member.number) \o ": " \o member.title
        \o " bits doesn't sum up to " \o ToStr(type)

\* process_commands' loop body for one table with the matches of its
\* title: sum(row["bits"] ...) raises on a row without integer bits,
\* commands[n] raises IndexError from n = 16 on.
StoreCommand(acc, member, matches) ==
    IF Len(matches) \notin {1, 2} THEN acc
    ELSE IF FirstExc(member.rows, LAMBDA row : SumExc(row, "bits")) # 0
         THEN [acc EXCEPT !.exc =
                  SumExc(member.rows[FirstExc(member.rows, LAMBDA row : SumExc(row, "bits"))],
                         "bits")]
    ELSE IF SumRows(member.rows, "bits") # 32 * Len(matches)
         THEN [acc EXCEPT !.warn = @ \cup {SumWarning(member, 32 * Len(matches))}]
    ELSE IF ToInt(matches[1]) >= Dwords THEN [acc EXCEPT !.exc = "IndexError"]
    ELSE IF Len(matches) = 1
         THEN [acc EXCEPT !.commands[ToInt(matches[1]) + 1] = Typed(member, 32)]
    ELSE IF ToInt(matches[2]) >= Dwords
         THEN [acc EXCEPT !.commands[ToInt(matches[1]) + 1] = Typed(member, 64),
                          !.exc = "IndexError"]
    ELSE [acc EXCEPT !.commands =
             [[@ EXCEPT ![ToInt(matches[1]) + 1] = Typed(member, 64)]
                 EXCEPT ![ToInt(matches[2]) + 1].title = "skip"]]

\* process_commands' loop over the tables of a group, up to the first
\* exception.
RECURSIVE StoreCommands(_, _)
StoreCommands(acc, tables) ==
    IF tables = <<>> \/ acc.exc # "" THEN acc
    ELSE StoreCommands(StoreCommand(acc, Head(tables), FindDwords(Head(tables).title, 1)),
                       Tail(tables))

\* process_commands' loop body for group i of acc.groups: the group's
\* tables become the commands unless an exception ends the function.
ProcessGroup(acc, i, r) ==
    IF r.exc # "" THEN [groups |-> acc.groups, exc |-> r.exc, warn |-> r.warn]
    ELSE [groups |-> [acc.groups EXCEPT ![i].v.tables = r.commands],
          exc |-> "", warn |-> r.warn]

\* process_commands from group i on, up to the first exception.
RECURSIVE ProcessCommandsFrom(_, _)
ProcessCommandsFrom(acc, i) ==
    IF i > Len(acc.groups) \/ acc.exc # "" THEN acc
    ELSE IF acc.groups[i].v.spec_type # "command" THEN ProcessCommandsFrom(acc, i + 1)
    ELSE ProcessCommandsFrom(
             ProcessGroup(acc, i,
                 StoreCommands([commands |-> GenEmptyCommands, exc |-> "", warn |-> acc.warn],
                               acc.groups[i].v.tables)),
             i + 1)

\* process_commands
ProcessCommands(gs) == ProcessCommandsFrom([groups |-> gs, exc |-> "", warn |-> {}], 1)

-----------------------------------------------------------------------------
(* The tables the model draws its input from.                              *)

\* "children": [], as parse_row creates every row.
EmptyChildren == "children" :> RowsV(<<>>)

\* The lists parse_row stores for "n" and for "hi:lo" (an ascending pair is
\* stored sorted).
BitLists ==
    {<<n>> : n \in 0..MaxBit}
    \cup {q \in (0..MaxBit) \X (0..MaxBit) : q[1] >= q[2]}

\* What a cell of column h leaves in the row: a list of integers, the
\* colon-split text of a cell that is no number, or nothing (an empty cell).
BitCells(h) ==
    {h :> IntsV(l) : l \in BitLists} \cup {h :> StrsV(<<"x">>), <<>>}

\* The lists of 1 to n rows of S.
RowsUpTo(S, n) == UNION {[1..k -> S] : k \in 1..n}

\* Tables with a bits (or bytes) column, as the parser delivers them.
ParsedRows(h) == RowsUpTo({EmptyChildren @@ c : c \in BitCells(h)}, MaxRows)

\* Tables built as tests/test_transformer.py builds them: rows given
\* directly, with or without the "children" key.
DirectRows ==
    RowsUpTo({("bits" :> IntsV(l)) @@ c : l \in BitLists, c \in {EmptyChildren, <<>>}},
             MaxRows)

\* A one-row table whose bits cell reads "a:b:c".
ColonRows ==
    {<<EmptyChildren @@ ("bits" :> IntsV(<<a, b, c>>))>> :
        a \in 0..MaxBit, b \in 0..MaxBit, c \in 0..MaxBit}

\* Tables with both a bits and a bytes column.
BothRows ==
    RowsUpTo({EmptyChildren @@ ("bits" :> IntsV(<<a>>)) @@ ("bytes" :> IntsV(<<b>>)) :
                a \in 0..MaxBit, b \in 0..MaxBit}, MaxRows)

\* The texts of a "value" cell; a cell "brief: verbose" leaves the keys
\* "brief" and "verbose" and no "value".
ValueCells ==
    {"value" :> StrV(x) : x \in {"20h", "2h to Ah", "All Others"}}
    \cup {("brief" :> StrV("Some Brief")) @@ ("verbose" :> StrV("text"))}

DescriptionCells ==
    {"description" :> StrV(x) : x \in {"Reserved", "Set to 20h", "1Fh"}}

\* Tables of values.
HexRows ==
    RowsUpTo({EmptyChildren @@ v @@ d : v \in ValueCells, d \in DescriptionCells}, MaxRows)

\* Tables with a bits column and a value column.
HexBitsRows ==
    RowsUpTo({EmptyChildren @@ ("bits" :> IntsV(<<n>>)) @@ ("value" :> StrV(x)) :
                n \in 0..MaxBit, x \in {"20h", "2h to Ah", "All Others"}}, MaxRows)

ChildBits(l) == EmptyChildren @@ ("bits" :> IntsV(l))

ChildValue(x) == EmptyChildren @@ ("value" :> StrV(x))

\* The nested tables of a row.
ChildLists ==
    {<<>>,
     <<ChildBits(<<1>>)>>,
     <<ChildBits(<<0>>), ChildBits(<<2, 1>>)>>,
     <<ChildBits(<<1>>), EmptyChildren @@ ("bits" :> StrsV(<<"x">>))>>,
     <<EmptyChildren @@ ("description" :> StrV("Reserved"))>>,
     <<ChildValue("20h"), ChildValue("All Others")>>}

\* Tables whose rows have nested tables.
NestedRows ==
    RowsUpTo({("children" :> RowsV(c)) @@ ("description" :> StrV("Some Text")) :
                c \in ChildLists}, MaxRows)

\* Tables of rows with and without a name, a brief, a definition, a
\* description.
NameRows ==
    RowsUpTo({EmptyChildren @@ c : c \in
                {"description" :> StrV("Reserved"),
                 "description" :> StrV("Some Text"),
                 ("brief" :> StrV("Some Brief")) @@ ("verbose" :> StrV("text")),
                 ("name" :> StrV("nm")) @@ ("brief" :> StrV("Some Brief"))
                     @@ ("verbose" :> StrV("text")),
                 "definition" :> StrV("Def X"),
                 "value" :> StrV("All Others")}}, MaxRows)

DefaultTitle == "Figure 1: Test Table"

Titles ==
    {"test table",
     "Figure 12: Admin Commands ~ Create Queue Command Dword 10",
     "Figure 2: Data Pointer",
     "Figure 3: A ~ B ~ C",
     "Figure 4: A ~ ",
     "Figure x: A ~ B",
     "Figure 5:"}

\* The (title, rows) pairs transform is run on.
Inputs ==
    {[title |-> DefaultTitle, rows |-> r] :
        r \in ParsedRows("bits") \cup ParsedRows("bytes") \cup DirectRows \cup ColonRows
              \cup BothRows \cup HexRows \cup HexBitsRows \cup NestedRows \cup NameRows}
    \cup {[title |-> x, rows |-> <<ChildBits(<<1, 0>>)>>] : x \in Titles}

-----------------------------------------------------------------------------
(* transform() on one table.                                               *)

NoTable ==
    [title |-> "", rows |-> <<>>, number |-> 0, group |-> "", spec_type |-> "",
     c_type |-> "", headings |-> <<>>]

\* A function that is not running.
Idle == [pc |-> "idle"]

Init ==
    /\ input \in Inputs
    /\ table = NoTable
    /\ pc = "construct"
    /\ calls = <<>>
    /\ failed = <<>>
    /\ attempted = <<>>
    /\ groups = <<>>
    /\ escaped = ""
    /\ main = Idle
    /\ parse = Idle
    /\ schedule = Idle
    /\ check = Idle

\* table = Table(title, rows): an exception of create_headings is not caught
\* by transform, nor by main.
Construct ==
    /\ pc = "construct"
    /\ IF CreateHeadingsExc(input.rows) # ""
       THEN /\ escaped' = CreateHeadingsExc(input.rows)
            /\ pc' = "raised"
            /\ UNCHANGED table
       ELSE /\ table' = NewTable(input.title, input.rows)
            /\ pc' = MethodNames[1]
            /\ UNCHANGED escaped
    /\ UNCHANGED <<input, calls, failed, attempted, groups>>
    /\ UNCHANGED <<main, parse, schedule, check>>

\* One turn of transform's loop over method_names: r is the result of
\* getattr(table, name)() for the name at position i.
Step(i, r) ==
    /\ pc = MethodNames[i]
    /\ table' = r.t
    /\ calls' = <<CallRec(MethodNames[i], table, r)>> \o r.calls
    /\ failed' = IF r.exc # "" THEN Append(failed, MethodNames[i]) ELSE failed
    /\ pc' = AfterMethod(i, r.exc)
    /\ attempted' = Append(attempted, MethodNames[i])
    /\ UNCHANGED <<input, groups, escaped>>
    /\ UNCHANGED <<main, parse, schedule, check>>

RemoveEmptyChildrenStep == Step(1, RemoveEmptyChildren(table))
EnforceHeadingsStep == Step(2, EnforceHeadings(table))
CleanBitsAndBytesStep == Step(3, CleanBitsAndBytes(table))
CleanHexStep == Step(4, CleanHex(table))
ReverseBitsRowsStep == Step(5, ReverseBitsRows(table))
GenerateNameStep == Step(6, GenerateName(table))
ProcessTitleStep == Step(7, ProcessTitle(table))
DetermineSpecTypeStep == Step(8, DetermineSpecType(table))
DetermineCTypeStep == Step(9, DetermineCType(table))
ProcessChildrenStep == Step(10, ProcessChildren(table))

\* The table is added to its group.
Emit ==
    /\ pc = "emit"
    /\ groups' = AddToGroup(groups, table)
    /\ pc' = "done"
    /\ UNCHANGED <<input, table, calls, failed, attempted, escaped>>
    /\ UNCHANGED <<main, parse, schedule, check>>

Next ==
    \/ Construct
    \/ RemoveEmptyChildrenStep
    \/ EnforceHeadingsStep
    \/ CleanBitsAndBytesStep
    \/ CleanHexStep
    \/ ReverseBitsRowsStep
    \/ GenerateNameStep
    \/ ProcessTitleStep
    \/ DetermineSpecTypeStep
    \/ DetermineCTypeStep
    \/ ProcessChildrenStep
    \/ Emit

Spec == Init /\ [][Next]_vars

-----------------------------------------------------------------------------
(* The pages the model runs transformer.main on.                           *)

BitsRow(hi, lo) == EmptyChildren @@ ("bits" :> IntsV(<<hi, lo>>))

\* The tables of a page dict of parser.main: a command dword, its upper and
\* lower half (a table continued on the next page), two dwords, a table of
\* values, a bits cell that is no number, a lone reserved row.
Dword == <<BitsRow(31, 0)>>
UpperHalf == <<BitsRow(31, 16)>>
LowerHalf == <<BitsRow(15, 0)>>
TwoDwords == <<BitsRow(63, 32), BitsRow(31, 0)>>
Values == <<EmptyChildren @@ ("value" :> StrV("20h")) @@ ("description" :> StrV("Some Text"))>>
NoNumber == <<EmptyChildren @@ ("bits" :> StrsV(<<"x">>))>>
LoneReserved == <<EmptyChildren @@ ("description" :> StrV("Reserved"))>>

Entry(caption, rows) == [k |-> caption, v |-> rows]

Dword10 == "Figure 1: Admin ~ Command Dword 10"
Dword11And10 == "Figure 2: Admin ~ Command Dword 11 and Dword 10"
Dword16 == "Figure 3: Admin ~ Command Dword 16"
Dword10And11 == "Figure 6: Admin ~ Command Dword 10 and Dword 11"
Dword11 == "Figure 7: Admin ~ Command Dword 11"
Dword2And17 == "Figure 9: Io ~ Command Dword 2 and Dword 17"

\* The (caption, rows) items of the page dicts of one table.
Entries ==
    {Entry(Dword10, UpperHalf), Entry(Dword10, LowerHalf), Entry(Dword10, NoNumber),
     Entry(Dword11And10, TwoDwords), Entry(Dword11And10, Dword),
     Entry(Dword16, Dword),
     Entry("Figure 4: Admin ~ Status Values", Values),
     Entry("Figure 5: Log Page", Dword),
     Entry("Figure 5: Log Page", LoneReserved),
     Entry(Dword2And17, TwoDwords)}

\* The page dicts: one table, or two tables with different captions.
PageDicts ==
    {<<e>> : e \in Entries}
    \cup {<<Entry(Dword10, Dword), Entry(Dword11, Dword)>>,
          <<Entry(Dword11, Dword), Entry(Dword10And11, TwoDwords)>>,
          <<Entry("Figure 4: Admin ~ Status Values", Values),
            Entry("Figure 8: Status ~ Values", Values)>>}

MaxPages == 2

\* pages.values() of the dict schedule() collects.
PagesInputs == UNION {[1..n -> PageDicts] : n \in 1..MaxPages}

-----------------------------------------------------------------------------
(* transformer.main, one statement a step.                                 *)

\* transform() on one table is not running.
TransformIdle ==
    /\ input = [title |-> "", rows |-> <<>>]
    /\ table = NoTable
    /\ pc = "idle"
    /\ calls = <<>>
    /\ failed = <<>>
    /\ attempted = <<>>
    /\ groups = <<>>
    /\ escaped = ""

InitMain ==
    /\ TransformIdle
    /\ main \in {[pc |-> "flatten_pages", pages |-> p, tables |-> <<>>, groups |-> <<>>,
                  types |-> <<>>, result |-> <<>>, exc |-> "", warn |-> {}] :
                    p \in PagesInputs}
    /\ parse = Idle
    /\ schedule = Idle
    /\ check = Idle

\* tables = flatten_pages(pages)
FlattenPagesStep ==
    /\ main.pc = "flatten_pages"
    /\ main' = [main EXCEPT !.tables = FlattenPages(main.pages), !.pc = "transform"]
    /\ UNCHANGED <<input, table, pc, calls, failed, attempted, groups, escaped>>
    /\ UNCHANGED <<parse, schedule, check>>

\* groups = transform(tables), r its outcome: an exception of Table() ends
\* main.
TransformDone(r) ==
    /\ main.pc = "transform"
    /\ IF r.exc # ""
       THEN main' = [main EXCEPT !.exc = r.exc, !.pc = "raised"]
       ELSE main' = [main EXCEPT !.groups = r.groups, !.pc = "collect_types"]
    /\ UNCHANGED <<input, table, pc, calls, failed, attempted, groups, escaped>>
    /\ UNCHANGED <<parse, schedule, check>>

TransformStep == TransformDone(Transform(main.tables))

\* groups = collect_types(groups)
CollectTypesStep ==
    /\ main.pc = "collect_types"
    /\ main' = [main EXCEPT !.types = CollectTypes(main.groups), !.pc = "process_commands"]
    /\ UNCHANGED <<input, table, pc, calls, failed, attempted, groups, escaped>>
    /\ UNCHANGED <<parse, schedule, check>>

\* process_commands(groups), r its outcome: an exception ends main.
ProcessCommandsDone(r) ==
    /\ main.pc = "process_commands"
    /\ main' = [main EXCEPT !.result = r.groups, !.exc = r.exc, !.warn = r.warn,
                            !.pc = IF r.exc # "" THEN "raised" ELSE "return"]
    /\ UNCHANGED <<input, table, pc, calls, failed, attempted, groups, escaped>>
    /\ UNCHANGED <<parse, schedule, check>>

ProcessCommandsStep == ProcessCommandsDone(ProcessCommands(main.types))

\* return groups
ReturnStep ==
    /\ main.pc = "return"
    /\ main' = [main EXCEPT !.pc = "returned"]
    /\ UNCHANGED <<input, table, pc, calls, failed, attempted, groups, escaped>>
    /\ UNCHANGED <<parse, schedule, check>>

NextMain ==
    \/ FlattenPagesStep
    \/ TransformStep
    \/ CollectTypesStep
    \/ ProcessCommandsStep
    \/ ReturnStep

SpecMain == InitMain /\ [][NextMain]_vars

-----------------------------------------------------------------------------
(* scheduler.schedule: the pages of captions.main are mapped over a pool   *)
(* of worker processes that run parse, and the results are collected in    *)
(* the order of the pages.  What camelot and the parser make of a page is   *)
(* the environment's choice: item i of schedule.items says whether          *)
(* extraction finds tables, finds none, or raises, and whether parsing      *)
(* raises.                                                                  *)

\* ProcessPoolExecutor(10)
PoolSize == 10

MaxItems == 2

\* What extract_tables does on a page: it returns tables, returns no table,
\* raises FileNotFoundError or raises another exception of camelot.read_pdf
\* or match_caption_to_table; and what parser.main does with the tables.
PageOutcomes ==
    {[extract |-> "tables", parse |-> "ok"],
     [extract |-> "tables", parse |-> "Exception"],
     [extract |-> "no tables", parse |-> "ok"],
     [extract |-> "FileNotFoundError", parse |-> "ok"],
     [extract |-> "Exception", parse |-> "ok"]}

\* A work item of the pool: not started, in extractor.main, in parser.main,
\* done with a result (a page dict, an empty dict or an exception), or
\* cancelled.
Queued == [status |-> "queued", result |-> "none"]

InitSchedule ==
    /\ TransformIdle
    /\ main = Idle
    /\ parse = Idle
    /\ check = Idle
    /\ schedule \in {[pc |-> "map", items |-> it, tasks |-> [i \in 1..Len(it) |-> Queued],
                      next |-> 1, pages |-> {}, log |-> {}, exc |-> ""] :
                        it \in UNION {[1..n -> PageOutcomes] : n \in 1..MaxItems}}

\* The work items a worker process is running.
Running == {i \in 1..Len(schedule.tasks) : schedule.tasks[i].status \in {"extracting", "parsing"}}

\* A free worker takes the next work item off the queue and calls parse,
\* which calls extractor.main.
StartParse(i) ==
    /\ schedule.pc = "map"
    /\ schedule.tasks[i].status = "queued"
    /\ \A j \in 1..(i - 1) : schedule.tasks[j].status # "queued"
    /\ Cardinality(Running) < PoolSize
    /\ schedule' = [schedule EXCEPT !.tasks[i].status = "extracting"]
    /\ UNCHANGED <<input, table, pc, calls, failed, attempted, groups, escaped>>
    /\ UNCHANGED <<main, parse, check>>

\* extractor.main in parse: FileNotFoundError is logged and gives no table;
\* any other exception leaves extractor.main and parse, which calls it
\* outside its try, and becomes the result of the work item.
ExtractorMain(i) ==
    /\ schedule.tasks[i].status = "extracting"
    /\ schedule' =
          CASE schedule.items[i].extract = "tables" ->
                 [schedule EXCEPT !.tasks[i].status = "parsing"]
            [] schedule.items[i].extract = "no tables" ->
                 [schedule EXCEPT !.tasks[i] = [status |-> "done", result |-> "empty"]]
            [] schedule.items[i].extract = "FileNotFoundError" ->
                 [schedule EXCEPT !.tasks[i] = [status |-> "done", result |-> "empty"],
                                  !.log = @ \cup {[page |-> i, by |-> "Extractor"]}]
            [] OTHER ->
                 [schedule EXCEPT !.tasks[i] = [status |-> "done", result |-> "exception"]]
    /\ UNCHANGED <<input, table, pc, calls, failed, attempted, groups, escaped>>
    /\ UNCHANGED <<main, parse, check>>

\* parser.main in parse's try: an exception is logged and gives {}.
ParserMain(i) ==
    /\ schedule.tasks[i].status = "parsing"
    /\ schedule' =
          IF schedule.items[i].parse = "ok"
          THEN [schedule EXCEPT !.tasks[i] = [status |-> "done", result |-> "page"]]
          ELSE [schedule EXCEPT !.tasks[i] = [status |-> "done", result |-> "empty"],
                                !.log = @ \cup {[page |-> i, by |-> "Scheduler"]}]
    /\ UNCHANGED <<input, table, pc, calls, failed, attempted, groups, escaped>>
    /\ UNCHANGED <<main, parse, check>>

\* The work items not started when the iteration over the results ends
\* with an exception are cancelled.
Cancelled(tasks) ==
    [i \in 1..Len(tasks) |->
        IF tasks[i].status = "queued" THEN [status |-> "cancelled", result |-> "none"]
        ELSE tasks[i]]

\* for page in executor.map(...): pages.update(page), on the next result in
\* the order of the pages; a result that is an exception is raised here and
\* ends schedule.
Collect ==
    /\ schedule.pc = "map"
    /\ schedule.next <= Len(schedule.tasks)
    /\ schedule.tasks[schedule.next].status = "done"
    /\ schedule' =
          CASE schedule.tasks[schedule.next].result = "exception" ->
                 [schedule EXCEPT !.pc = "raised", !.exc = "Exception",
                                  !.tasks = Cancelled(schedule.tasks)]
            [] schedule.tasks[schedule.next].result = "page" ->
                 [schedule EXCEPT !.pages = @ \cup {schedule.next}, !.next = @ + 1]
            [] OTHER -> [schedule EXCEPT !.next = @ + 1]
    /\ UNCHANGED <<input, table, pc, calls, failed, attempted, groups, escaped>>
    /\ UNCHANGED <<main, parse, check>>

\* return pages
ScheduleReturn ==
    /\ schedule.pc = "map"
    /\ schedule.next > Len(schedule.tasks)
    /\ schedule' = [schedule EXCEPT !.pc = "returned"]
    /\ UNCHANGED <<input, table, pc, calls, failed, attempted, groups, escaped>>
    /\ UNCHANGED <<main, parse, check>>

NextSchedule ==
    \/ \E i \in 1..Len(schedule.tasks) : StartParse(i)
    \/ \E i \in 1..Len(schedule.tasks) : ExtractorMain(i)
    \/ \E i \in 1..Len(schedule.tasks) : ParserMain(i)
    \/ Collect
    \/ ScheduleReturn

SpecSchedule == InitSchedule /\ [][NextSchedule]_vars

-----------------------------------------------------------------------------
(* captions.check_figure_number.                                           *)

\* regex.match(caption) for r"Figure (?P<number>\d+): .+"
FigureMatch(caption) ==
    FigurePrefix(caption).matched /\ FigurePrefix(caption).rest # ""

\* int(match.group("number"))
FigureNumber(caption) == ToInt(FigurePrefix(caption).number)

\* The loop over range(1, number - current_figure), whose end stop is taken
\* when the loop starts: each turn warns about current_figure + missing and
\* sets current_figure to number.
RECURSIVE WarnMissing(_, _, _, _)
WarnMissing(acc, missing, stop, number) ==
    IF missing >= stop THEN acc
    ELSE WarnMissing([acc EXCEPT !.warn = Append(@, acc.current_figure + missing),
                                 !.current_figure = number],
                     missing + 1, stop, number)

\* The if / elif on the number of a caption that matches.
CountFigure(acc, number) ==
    IF number = acc.current_figure + 1 THEN [acc EXCEPT !.current_figure = @ + 1]
    ELSE IF number # acc.current_figure
         THEN WarnMissing(acc, 1, number - acc.current_figure, number)
         ELSE acc

\* The if / elif that skips a caption that matches: a number that is not a
\* target when there are targets, or else a number that is ignored.
SkipsFigure(number, ignores, targets) ==
    IF Len(targets) > 0 /\ ~InSeq(number, targets) THEN TRUE
    ELSE InSeq(number, ignores)

\* The loop body for caption i (from 0).
CheckCaption(acc, i, caption, ignores, targets) ==
    IF FigureMatch(caption)
    THEN IF SkipsFigure(FigureNumber(caption), ignores, targets)
         THEN [CountFigure(acc, FigureNumber(caption)) EXCEPT
                  !.captions_to_skip = Append(@, i)]
         ELSE CountFigure(acc, FigureNumber(caption))
    ELSE [acc EXCEPT !.captions_to_skip = Append(@, i)]

RECURSIVE CheckFrom(_, _, _, _, _)
CheckFrom(acc, i, captions, ignores, targets) ==
    IF i >= Len(captions) THEN acc
    ELSE CheckFrom(CheckCaption(acc, i, captions[i + 1], ignores, targets),
                   i + 1, captions, ignores, targets)

\* check_figure_number
CheckFigureNumber(captions, current_figure, ignores, targets) ==
    CheckFrom([current_figure |-> current_figure, captions_to_skip |-> <<>>,
               warn |-> <<>>],
              0, captions, ignores, targets)

\* The texts of the bold lines of a page that start with "Figure".
CaptionTexts ==
    {"Figure 1: Bits", "Figure 2: Values", "Figure 3: Admin ~ Command Dword 10",
     "Figure 5: Log Page", "Figure 2:", "Figure x: Values", "Figures of merit"}

MaxCaptions == 2

\* The calls of check_figure_number: the captions of a page, the figure
\* count so far, the numbers of the ignore file and of the target file.
CheckInputs ==
    {[captions |-> c, current_figure |-> n, ignores |-> i, targets |-> t] :
        c \in UNION {[1..k -> CaptionTexts] : k \in 1..MaxCaptions},
        n \in {1, 2},
        i \in {<<>>, <<2>>, <<1, 3>>},
        t \in {<<>>, <<2>>, <<2, 3>>}}

InitCheck ==
    /\ TransformIdle
    /\ main = Idle
    /\ parse = Idle
    /\ schedule = Idle
    /\ check \in {[pc |-> "call", args |-> a, current_figure |-> a.current_figure,
                   captions_to_skip |-> <<>>, warn |-> <<>>] : a \in CheckInputs}

\* current_figure, captions_to_skip = check_figure_number(...), r what it
\* returns.
CheckFigureNumberDone(r) ==
    /\ check.pc = "call"
    /\ check' = [check EXCEPT !.pc = "returned", !.current_figure = r.current_figure,
                              !.captions_to_skip = r.captions_to_skip, !.warn = r.warn]
    /\ UNCHANGED <<input, table, pc, calls, failed, attempted, groups, escaped>>
    /\ UNCHANGED <<main, parse, schedule>>

CheckFigureNumberStep ==
    CheckFigureNumberDone(CheckFigureNumber(check.args.captions, check.args.current_figure,
                                            check.args.ignores, check.args.targets))

NextCheck == CheckFigureNumberStep

SpecCheck == InitCheck /\ [][NextCheck]_vars

-----------------------------------------------------------------------------
(* parser.parse_row and parser.parse_content                               *)
(* (src/nvme_lint/parser.py).  A row of the page's table is the sequence   *)
(* of its cells' texts; a parsed record is a row dict.                     *)

IsSpace(c) == c \in {" ", "\n", "\t"}

RECURSIVE LStrip(_)
LStrip(s) == IF s # "" /\ IsSpace(Head(s)) THEN LStrip(Tail(s)) ELSE s

RECURSIVE RStrip(_)
RStrip(s) ==
    IF s # "" /\ IsSpace(Char(s, Len(s))) THEN RStrip(SubSeq(s, 1, Len(s) - 1)) ELSE s

\* str.strip()
Strip(s) == RStrip(LStrip(s))

\* str.replace(old, "") for a one-character old
RECURSIVE Remove(_, _)
Remove(s, old) ==
    IF s = "" THEN ""
    ELSE (IF Head(s) = old THEN "" ELSE Head(s)) \o Remove(Tail(s), old)

\* str.split(sep)
RECURSIVE Split(_, _)
Split(s, sep) ==
    LET at == {i \in 1..(Len(s) - Len(sep) + 1) : SubSeq(s, i, i + Len(sep) - 1) = sep}
    IN IF at = {} THEN <<s>>
       ELSE <<SubSeq(s, 1, Min(at) - 1)>> \o Split(SubSeq(s, Min(at) + Len(sep), Len(s)), sep)

\* What int() reads of s once the white space around it is gone: a sign
\* and the digits, which single underscores may group.
Unsigned(s) ==
    IF Strip(s) # "" /\ Head(Strip(s)) \in {"+", "-"} THEN Tail(Strip(s)) ELSE Strip(s)

\* int(s) returns: it raises ValueError otherwise.
IsPyInt(s) ==
    LET d == Unsigned(s)
    IN /\ d # ""
       /\ \A i \in 1..Len(d) : IsDigit(Char(d, i)) \/ Char(d, i) = "_"
       /\ IsDigit(Head(d))
       /\ IsDigit(Char(d, Len(d)))
       /\ ~Contains(d, "__")

\* int(s)
PyInt(s) ==
    IF Head(Strip(s)) = "-" THEN 0 - ToInt(Remove(Unsigned(s), "_"))
    ELSE ToInt(Remove(Unsigned(s), "_"))

\* value_range.match(s): \d+ to \d+ at the start of s
ValueRangeMatch(s) ==
    LET n == DigitsPrefix(s)
    IN /\ n > 0
       /\ Len(s) >= n + 5
       /\ SubSeq(s, n + 1, n + 4) = " to "
       /\ IsDigit(Char(s, n + 5))

\* hexadecimal_value.match(s): \d+h at the start of s
HexadecimalValueMatch(s) ==
    LET n == DigitsPrefix(s)
    IN n > 0 /\ Len(s) >= n + 1 /\ Char(s, n + 1) = "h"

\* sorted(q, reverse=True)
SortedReverse(q) == [i \in 1..Len(q) |-> SortInts(q)[Len(q) + 1 - i]]

\* A warning of parse_row about the cell of a bits/bytes column.
CellWarning(msg, heading, cell) == [msg |-> msg, heading |-> heading, cell |-> cell]

\* What the cell of a bits/bytes column comes to: the value stored under
\* the heading (stored |-> FALSE when the key is not set), the warnings
\* logged and the exception raised.
Stored(value, warn) == [stored |-> TRUE, value |-> value, warn |-> warn, exc |-> ""]
NotStored(warn, exc) == [stored |-> FALSE, value |-> IntsV(<<>>), warn |-> warn, exc |-> exc]

\* [int(b) for b in parts]
PyInts(parts) == [i \in 1..Len(parts) |-> PyInt(parts[i])]

AllPyInt(parts) == \A i \in 1..Len(parts) : IsPyInt(parts[i])

\* The except branch of parse_row's bits/bytes cell.
ParseBitsFallback(heading, cell) ==
    IF ValueRangeMatch(cell)
    THEN IF AllPyInt(Split(cell, "to"))
         THEN Stored(IntsV(SortedReverse(PyInts(Split(cell, "to")))),
                     {CellWarning("range is of the wrong format", heading, cell)})
         ELSE NotStored({CellWarning("range is of the wrong format", heading, cell)},
                        "ValueError")
    ELSE IF HexadecimalValueMatch(cell)
    THEN NotStored({CellWarning("value is of the wrong type", heading, cell)}, "")
    ELSE IF cell = "" THEN NotStored({}, "")
    ELSE Stored(StrsV(Split(cell, ":")), {})

\* A faulty bits/bytes cell that stores an ascending pair as written.
ParseBitsUnsorted(heading, cell) ==
    IF AllPyInt(Split(cell, ":"))
    THEN Stored(IntsV(PyInts(Split(cell, ":"))),
                IF Len(Split(cell, ":")) = 2
                   /\ PyInt(Split(cell, ":")[1]) < PyInt(Split(cell, ":")[2])
                THEN {CellWarning("range is in wrong order", heading, cell)} ELSE {})
    ELSE ParseBitsFallback(heading, cell)

\* The bits/bytes cell of parse_row.
ParseBits(heading, cell) ==
    IF AllPyInt(Split(cell, ":"))
    THEN IF Len(Split(cell, ":")) = 2
            /\ PyInt(Split(cell, ":")[1]) < PyInt(Split(cell, ":")[2])
         THEN Stored(IntsV(SortedReverse(PyInts(Split(cell, ":")))),
                     {CellWarning("range is in wrong order", heading, cell)})
         ELSE Stored(IntsV(PyInts(Split(cell, ":"))), {})
    ELSE ParseBitsFallback(heading, cell)

\* name_brief_verbose_regex.match(text), (.+?)\((.+?)\):(.+): where "("
\* and "):" stand in the match, <<>> when there is none.  The lazy groups
\* take the first "(" and then the first "):" that let the rest match.
NameBriefVerboseMatch(text) ==
    LET ends(q) == {r \in (q + 2)..(Len(text) - 2) : SubSeq(text, r, r + 1) = "):"}
        opens == {q \in 2..Len(text) : Char(text, q) = "(" /\ ends(q) # {}}
    IN IF opens = {} THEN <<>> ELSE <<Min(opens), Min(ends(Min(opens)))>>

\* brief_verbose_regex.match(text), (.+?):(.+): where ":" stands in the
\* match, 0 when there is none.
BriefVerboseMatch(text) ==
    LET colons == {p \in 2..(Len(text) - 1) : Char(text, p) = ":"}
    IN IF colons = {} THEN 0 ELSE Min(colons)

\* The keys a cell of another column sets in content.
ParseText(content, heading, cell) ==
    LET text == Remove(cell, "\n")
        m == NameBriefVerboseMatch(text)
        p == BriefVerboseMatch(text)
    IN IF m # <<>>
       THEN Put(Put(Put(content,
                "name", StrV(Lower(Strip(SubSeq(text, m[1] + 1, m[2] - 1))))),
                "brief", StrV(Strip(SubSeq(text, 1, m[1] - 1)))),
                "verbose", StrV(Strip(SubSeq(text, m[2] + 2, Len(text)))))
       ELSE IF p # 0
       THEN Put(Put(content,
                "brief", StrV(Strip(SubSeq(text, 1, p - 1)))),
                "verbose", StrV(Strip(SubSeq(text, p + 1, Len(text)))))
       ELSE Put(content, heading, StrV(cell))

\* One turn of parse_row's loop, b what the cell comes to in a bits/bytes
\* column.
ParseCell(acc, heading, cell, b) ==
    IF heading \in {"bits", "bytes"}
    THEN [content |-> IF b.stored THEN Put(acc.content, heading, b.value) ELSE acc.content,
          warn |-> acc.warn \cup b.warn,
          exc |-> b.exc]
    ELSE [acc EXCEPT !.content = ParseText(acc.content, heading, cell)]

RECURSIVE ParseRowFrom(_, _, _, _, _)
ParseRowFrom(acc, row, headings, start_index, i) ==
    IF i > Len(headings) \/ acc.exc # "" THEN acc
    ELSE IF start_index + i > Len(row) THEN [acc EXCEPT !.exc = "IndexError"]
    ELSE ParseRowFrom(ParseCell(acc, headings[i], row[start_index + i],
                                ParseBits(headings[i], row[start_index + i])),
                      row, headings, start_index, i + 1)

\* parse_row(row, headings, start_index): the record, the warnings logged
\* and the exception raised.
ParseRow(row, headings, start_index) ==
    ParseRowFrom([content |-> EmptyChildren, warn |-> {}, exc |-> ""],
                 row, headings, start_index, 1)

\* One heading of parse_headings.
ParseHeading(h) ==
    LET heading == Lower(Remove(h, "\n"))
    IN IF heading = "bit" THEN "bits"
       ELSE IF heading = "byte" THEN "bytes"
       ELSE IF Contains(heading, "value") THEN "value"
       ELSE heading

\* parse_headings(row)
ParseHeadings(row) ==
    LET kept == SelectSeq(row, LAMBDA h : h # "")
    IN [i \in 1..Len(kept) |-> ParseHeading(kept[i])]

\* The rows of a page's table under the headings "bits" (or "bytes") and
\* "description", with two more columns for the nested tables.
TopRow(cell) == <<cell, "Opcode (OPC): Command", "", "">>
BlankRow == <<"", "", "", "">>
ValueHeadings == <<"", "", "Value", "Definition">>
ValueRow == <<"", "", "0h", "Read">>
BitRow == <<"", "", "", "Bit">>

TableRows == {TopRow("7:0"), TopRow("0:7"), TopRow("1 to 2x"),
              BlankRow, ValueHeadings, ValueRow, BitRow}

\* The texts of a bits/bytes cell.
BitsCells ==
    {"7", "7:0", "0:7", "3:3", "0 to 7", "7 to 0", "20h", "", "x", "1:2:3",
     "1 to 2 to 3", "1 to 2x", "7:", " 7 : 0", "-1:2", "1_0", "20h:3",
     "15 to 8\n7 to 0"}

\* Rows per parsed table.
MaxTableRows == 4

\* The calls of parse_content: tables of the rows above, and the tables of
\* one row for each text of a bits/bytes cell.
ParseInputs ==
    {[headings |-> <<"bits", "description">>, rows |-> r] :
        r \in UNION {[1..k -> TableRows] : k \in 0..MaxTableRows}}
    \cup {[headings |-> <<h, "description">>, rows |-> <<TopRow(c)>>] :
            h \in {"bits", "bytes"}, c \in BitsCells}

\* subheadings = None
NoSubheadings == [set |-> FALSE, v |-> <<>>]

\* No call of parse_row yet.
NoCall == [row |-> <<>>, headings |-> <<>>, start_index |-> 0,
           content |-> EmptyChildren, warn |-> {}, exc |-> ""]

InitParse ==
    /\ TransformIdle
    /\ main = Idle
    /\ schedule = Idle
    /\ check = Idle
    /\ parse \in {[pc |-> "rows", headings |-> a.headings, rows |-> a.rows, i |-> 1,
                   output |-> <<>>, subheadings |-> NoSubheadings,
                   call |-> NoCall, called |-> FALSE, warn |-> {}, exc |-> ""] :
                     a \in ParseInputs}

\* all(value == "" for value in row)
AllBlank(row) == \A k \in 1..Len(row) : row[k] = ""

\* all(value == "" for value in row[:len(headings)])
HeadingsBlank(row, headings) ==
    \A k \in 1..Len(row) : k <= Len(headings) => row[k] = ""

\* The row the loop of parse_content is at.
AtRow == parse.pc = "rows" /\ parse.i <= Len(parse.rows)

Row == parse.rows[parse.i]

ParseUnchanged ==
    /\ UNCHANGED <<input, table, pc, calls, failed, attempted, groups, escaped>>
    /\ UNCHANGED <<main, schedule, check>>

\* The record of a call of parse_row that came to r.
Call(row, headings, start_index, r) ==
    [row |-> row, headings |-> headings, start_index |-> start_index,
     content |-> r.content, warn |-> r.warn, exc |-> r.exc]

\* An empty row is skipped.
SkipEmptyRow ==
    /\ AtRow
    /\ AllBlank(Row)
    /\ parse' = [parse EXCEPT !.i = @ + 1, !.called = FALSE]
    /\ ParseUnchanged

\* The first row of a nested table gives its headings.
SubheadingsRow ==
    /\ AtRow
    /\ ~AllBlank(Row)
    /\ HeadingsBlank(Row, parse.headings)
    /\ ~parse.subheadings.set
    /\ parse' = [parse EXCEPT !.i = @ + 1, !.called = FALSE,
                              !.subheadings = [set |-> TRUE, v |-> ParseHeadings(Row)]]
    /\ ParseUnchanged

\* The headings a row of a nested table is parsed against.
ChildHeadings == IF parse.subheadings.v # <<>> THEN parse.subheadings.v ELSE parse.headings

\* A later row of a nested table goes to the children of the last record
\* of output when there is one, r what parse_row comes to.
ChildRowDone(r) ==
    /\ AtRow
    /\ ~AllBlank(Row)
    /\ HeadingsBlank(Row, parse.headings)
    /\ parse.subheadings.set
    /\ parse' =
         IF parse.output = <<>> THEN [parse EXCEPT !.i = @ + 1, !.called = FALSE]
         ELSE IF r.exc # ""
         THEN [parse EXCEPT !.pc = "raised", !.exc = r.exc, !.called = TRUE,
                            !.warn = @ \cup r.warn,
                            !.call = Call(Row, ChildHeadings, Len(parse.headings), r)]
         ELSE [parse EXCEPT !.i = @ + 1, !.called = TRUE,
                            !.warn = @ \cup r.warn,
                            !.call = Call(Row, ChildHeadings, Len(parse.headings), r),
                            !.output[Len(parse.output)]["children"] =
                                RowsV(Append(@.v, r.content))]
    /\ ParseUnchanged

ChildRow == ChildRowDone(ParseRow(Row, ChildHeadings, Len(parse.headings)))

\* A faulty top-level row that leaves subheadings as they are.
TopLevelRowKeepsSubheadings(r) ==
    /\ AtRow
    /\ ~HeadingsBlank(Row, parse.headings)
    /\ parse' =
         IF r.exc # ""
         THEN [parse EXCEPT !.pc = "raised", !.exc = r.exc, !.called = TRUE,
                            !.warn = @ \cup r.warn,
                            !.call = Call(Row, parse.headings, 0, r)]
         ELSE [parse EXCEPT !.i = @ + 1, !.called = TRUE,
                            !.warn = @ \cup r.warn,
                            !.call = Call(Row, parse.headings, 0, r),
                            !.output = Append(@, r.content)]
    /\ ParseUnchanged

\* Any other row is a record of output and resets subheadings, r what
\* parse_row comes to.
TopLevelRowDone(r) ==
    /\ AtRow
    /\ ~HeadingsBlank(Row, parse.headings)
    /\ parse' =
         IF r.exc # ""
         THEN [parse EXCEPT !.pc = "raised", !.exc = r.exc, !.called = TRUE,
                            !.warn = @ \cup r.warn,
                            !.call = Call(Row, parse.headings, 0, r)]
         ELSE [parse EXCEPT !.i = @ + 1, !.called = TRUE,
                            !.warn = @ \cup r.warn,
                            !.call = Call(Row, parse.headings, 0, r),
                            !.output = Append(@, r.content),
                            !.subheadings = NoSubheadings]
    /\ ParseUnchanged

TopLevelRow == TopLevelRowDone(ParseRow(Row, parse.headings, 0))

\* return output
ReturnOutput ==
    /\ parse.pc = "rows"
    /\ parse.i > Len(parse.rows)
    /\ parse' = [parse EXCEPT !.pc = "returned", !.called = FALSE]
    /\ ParseUnchanged

NextParse ==
    \/ SkipEmptyRow
    \/ SubheadingsRow
    \/ ChildRow
    \/ TopLevelRow
    \/ ReturnOutput

SpecParse == InitParse /\ [][NextParse]_vars

-----------------------------------------------------------------------------
(* Properties.  A property of a method is stated over the records of its   *)
(* calls: the table the call found (pre), the table it left (t), the       *)
(* exception that escaped it (exc) and the warnings it logged (warn).      *)

\* The records in calls of the calls of method m.
CallsOf(m) == {calls[i] : i \in {j \in 1..Len(calls) : calls[j].m = m}}

\* C1: transform attempts the ten steps in the fixed order of method_names;
\* when a step raises, the exception is caught, the step after it is the
\* next one attempted all the same, and after the tenth step the table is
\* emitted into its group.
C1_StepsInOrderAndEmitted ==
    /\ Len(attempted) <= Len(MethodNames)
    /\ attempted = SubSeq(MethodNames, 1, Len(attempted))
    /\ \A i \in 1..Len(failed) : InSeq(failed[i], attempted)
    /\ (pc \notin {"construct", "raised"} /\ Len(attempted) < Len(MethodNames)
            => pc = MethodNames[Len(attempted) + 1])
    /\ (pc \in {"emit", "done"} <=> (Len(attempted) = Len(MethodNames)))
    /\ (pc = "done" =>
            /\ table.group \in DOMAIN groups
            /\ groups[table.group] = <<Transformed(table)>>)
    /\ (failed # <<>> => escaped = "")

\* A table is emitted after its first step raised and the nine later steps
\* were attempted.
C1_Witness ==
    /\ pc = "done"
    /\ failed # <<>>
    /\ failed[1] = "remove_empty_children"
    /\ attempted = MethodNames
    /\ table.group \in DOMAIN groups

\* C2: when a pipeline step raises, the rows and headings it leaves are
\* exactly those it found: a failing step contributes no partial mutation.
C2_FailedStepLeavesTableAsFound ==
    calls # <<>> /\ calls[1].exc # ""
        => /\ calls[1].t.rows = calls[1].pre.rows
           /\ calls[1].t.headings = calls[1].pre.headings

\* C3: whatever the table data, no exception escapes transformer.main.
C3_NoExceptionEscapes == escaped = ""

\* The width the claim gives a list of integers: 1 for [n], hi - lo + 1 for
\* [hi, lo].
WidthOf(l) == IF Len(l) = 1 THEN 1 ELSE l[1] - l[2] + 1

IsRange(x) ==
    /\ x.t = "ints"
    /\ \/ Len(x.v) = 1
       \/ Len(x.v) = 2 /\ x.v[1] >= x.v[2]

\* C4: calculate_bits_and_bytes replaces, in every row, a range [hi, lo]
\* with hi >= lo by hi - lo + 1 and a singleton [n] by 1; it keeps the
\* number and order of the rows and every other key of every row.
C4_RangesBecomeWidths ==
    \A c \in CallsOf("calculate_bits_and_bytes") :
        c.exc = "" =>
            LET h == BitsOrBytes(c.pre)
            IN /\ Len(c.t.rows) = Len(c.pre.rows)
               /\ \A k \in 1..Len(c.pre.rows) :
                    /\ DOMAIN c.t.rows[k] = DOMAIN c.pre.rows[k]
                    /\ \A key \in DOMAIN c.pre.rows[k] \ {h} :
                            c.t.rows[k][key] = c.pre.rows[k][key]
                    /\ (IsRange(c.pre.rows[k][h])
                            => c.t.rows[k][h] = IntV(WidthOf(c.pre.rows[k][h].v)))

\* calculate_bits_and_bytes has consolidated a table with a range of two
\* bits or more and a singleton.
C4_Witness ==
    \E c \in CallsOf("calculate_bits_and_bytes") :
        /\ c.exc = ""
        /\ \E k \in 1..Len(c.pre.rows) :
                /\ IsRange(c.pre.rows[k][BitsOrBytes(c.pre)])
                /\ Len(c.pre.rows[k][BitsOrBytes(c.pre)].v) = 2
                /\ c.t.rows[k][BitsOrBytes(c.pre)].v >= 2
        /\ \E k \in 1..Len(c.pre.rows) :
                /\ IsRange(c.pre.rows[k][BitsOrBytes(c.pre)])
                /\ Len(c.pre.rows[k][BitsOrBytes(c.pre)].v) = 1

\* rows are sorted by the first element under h, descending when reverse.
SortedBy(rows, h, reverse) ==
    \A k \in 1..(Len(rows) - 1) :
        IF reverse
        THEN ~KeyLess(SortKey(rows[k], h), SortKey(rows[k + 1], h))
        ELSE ~KeyLess(SortKey(rows[k + 1], h), SortKey(rows[k], h))

AlreadySorted(t) ==
    /\ InSeq("bits", t.headings) => SortedBy(t.rows, "bits", TRUE)
    /\ InSeq("bytes", t.headings) => SortedBy(t.rows, "bytes", FALSE)

\* C5: check_order warns exactly when it reorders; on rows already sorted
\* (descending for bits, ascending for bytes) it neither reorders nor
\* warns; and applied again to the table it left, it neither reorders nor
\* warns.
C5_CheckOrderFixedPoint ==
    \A c \in CallsOf("check_order") :
        c.exc = "" =>
            /\ (c.warn # {}) <=> (c.t.rows # c.pre.rows)
            /\ AlreadySorted(c.pre) => (c.t.rows = c.pre.rows /\ c.warn = {})
            /\ CheckOrder(c.t).t.rows = c.t.rows
            /\ CheckOrder(c.t).warn = {}

\* The positions a row covers: lo..hi for [hi, lo], one position for a
\* singleton, each with the type of the list it comes from.
Covered(row, h) ==
    IF Len(row[h].v) = 1 THEN {<<row[h].t, row[h].v[1]>>}
    ELSE {<<row[h].t, p>> : p \in row[h].v[2]..row[h].v[1]}

\* The size of a row's range.
RangeSize(row, h) ==
    IF Len(row[h].v) = 1 THEN 1
    ELSE IF row[h].v[1] >= row[h].v[2] THEN row[h].v[1] - row[h].v[2] + 1
    ELSE 0

RECURSIVE SumOfRangeSizes(_, _)
SumOfRangeSizes(rows, h) ==
    IF rows = <<>> THEN 0 ELSE RangeSize(Head(rows), h) + SumOfRangeSizes(Tail(rows), h)

CoveredBy(rows, h) == UNION {Covered(rows[k], h) : k \in 1..Len(rows)}

\* C6: check_overlap warns "overlap" if and only if the set of the
\* positions the rows cover has fewer elements than the sum of the rows'
\* range sizes; it never changes the table.
C6_OverlapIffPositionCoveredTwice ==
    \A c \in CallsOf("check_overlap") :
        /\ c.t = c.pre
        /\ c.exc = "" =>
              (c.warn = {"overlap of " \o BitsOrBytes(c.pre)}
                  <=> Cardinality(CoveredBy(c.pre.rows, BitsOrBytes(c.pre)))
                        < SumOfRangeSizes(c.pre.rows, BitsOrBytes(c.pre)))
        /\ c.warn \subseteq {"overlap of " \o BitsOrBytes(c.pre)}

\* check_overlap has warned of two rows that share a position.
C6_Witness ==
    \E c \in CallsOf("check_overlap") :
        /\ c.exc = ""
        /\ c.warn # {}
        /\ \E j, k \in 1..Len(c.pre.rows) :
              /\ j # k
              /\ Covered(c.pre.rows[j], BitsOrBytes(c.pre))
                    \cap Covered(c.pre.rows[k], BitsOrBytes(c.pre)) # {}

\* The integer positions the rows cover.
IntsCoveredBy(rows, h) ==
    UNION {IF rows[k][h].t = "ints" THEN {q[2] : q \in Covered(rows[k], h)} ELSE {} :
              k \in 1..Len(rows)}

\* Sorted ascending, two adjacent positions of P differ by more than 1:
\* some position that is not the highest has no successor in P.
HasHole(P) == \E p \in P : (\E q \in P : q > p) /\ (p + 1) \notin P

\* C7: check_for_holes warns "hole" if and only if, with the covered
\* positions sorted ascending, some two adjacent ones differ by more than
\* 1; it never changes the table.
C7_HoleIffAdjacentGap ==
    \A c \in CallsOf("check_for_holes") :
        /\ c.t = c.pre
        /\ c.exc = "" =>
              (c.warn = {"hole in " \o BitsOrBytes(c.pre)}
                  <=> HasHole(IntsCoveredBy(c.pre.rows, BitsOrBytes(c.pre))))
        /\ c.warn \subseteq {"hole in " \o BitsOrBytes(c.pre)}

\* check_for_holes has warned of two rows with a gap between them.
C7_Witness ==
    \E c \in CallsOf("check_for_holes") :
        /\ c.exc = ""
        /\ c.warn # {}
        /\ Len(c.pre.rows) = 2
        /\ HasHole(IntsCoveredBy(c.pre.rows, BitsOrBytes(c.pre)))

\* C8: on rows of integer widths check_sum warns "not a power of 2" if and
\* only if their total is not an exact power of two, and at a total of 0 it
\* completes without raising.
C8_CheckSumWarnsIffNotPowerOfTwo ==
    \A c \in CallsOf("check_sum") :
        FirstExc(c.pre.rows, LAMBDA row : SumExc(row, BitsOrBytes(c.pre))) = 0 =>
            /\ SumRows(c.pre.rows, BitsOrBytes(c.pre)) = 0 => c.exc = ""
            /\ c.exc = "" =>
                  (c.warn # {} <=> ~IsPowerOfTwo(SumRows(c.pre.rows, BitsOrBytes(c.pre))))

\* Heading H of table t has a hex value or a hex range as the whole value
\* of some row.
HasHexValue(t, H) ==
    /\ InSeq(H, t.headings)
    /\ \E k \in 1..Len(t.rows) : Has(t.rows[k], H) /\ IsHexCell(t.rows[k][H])

\* The name the claim gives key H after detect_hex_columns.
HexName(t, H) == IF HasHexValue(t, H) THEN "hex-" \o H ELSE H

\* C9: detect_hex_columns renames heading H to "hex-H", at its place in
\* the headings and as the key of every row, if and only if some row's
\* whole value under H is a hex value or a hex range; it keeps every row
\* and every value, and every other heading.
C9_RenamedIffHexValue ==
    \A c \in CallsOf("detect_hex_columns") :
        /\ Len(c.t.headings) = Len(c.pre.headings)
        /\ \A j \in 1..Len(c.pre.headings) :
              c.t.headings[j] = HexName(c.pre, c.pre.headings[j])
        /\ Len(c.t.rows) = Len(c.pre.rows)
        /\ \A k \in 1..Len(c.pre.rows) :
              /\ DOMAIN c.t.rows[k] = {HexName(c.pre, H) : H \in DOMAIN c.pre.rows[k]}
              /\ \A H \in DOMAIN c.pre.rows[k] :
                    c.t.rows[k][HexName(c.pre, H)] = c.pre.rows[k][H]

\* x is "0x<digits>".
IsCleanHex(x) ==
    /\ x.t = "str"
    /\ Len(x.v) > 2
    /\ SubSeq(x.v, 1, 2) = "0x"
    /\ IsHexDigits(SubSeq(x.v, 3, Len(x.v)))

\* The headings of t that clean_hex treats as hex columns.
HexHeadingsOf(t) == {H \in SeqToSet(t.headings) : HasHexValue(t, H)}

\* row holds a single hex value "<digits>h" under every hex heading of t.
HoldsSingleHexValues(t, row) ==
    \A H \in HexHeadingsOf(t) :
        Has(row, H) /\ row[H].t = "str" /\ IsHexValueExact(row[H].v)

\* C10: after clean_hex every value a row holds under a heading named
\* "hex-..." is "0x<digits>", made from the single hex value "<digits>h"
\* the row held; the rows left are exactly those that held a single hex
\* value under every hex heading, in their order.
C10_HexColumnsHoldCleanValues ==
    \A c \in CallsOf("clean_hex") :
        LET kept == SelectSeq(c.pre.rows, LAMBDA row : HoldsSingleHexValues(c.pre, row))
        IN /\ \A k \in 1..Len(c.t.rows) :
                \A key \in DOMAIN c.t.rows[k] :
                    IsHexHeading(key) => IsCleanHex(c.t.rows[k][key])
           /\ Len(c.t.rows) = Len(kept)
           /\ \A k \in 1..Len(kept) :
                \A H \in DOMAIN kept[k] :
                    IF H \in HexHeadingsOf(c.pre)
                    THEN /\ Has(c.t.rows[k], "hex-" \o H)
                         /\ c.t.rows[k]["hex-" \o H]
                              = StrV("0x" \o SubSeq(kept[k][H].v, 1, Len(kept[k][H].v) - 1))
                    ELSE Has(c.t.rows[k], H) /\ c.t.rows[k][H] = kept[k][H]

\* caption reads "Figure <n>: <rest>" with n the digits that end at
\* position i and rest not empty.
IsFigureCaption(caption, i) ==
    /\ i >= 8
    /\ Len(caption) >= i + 3
    /\ SubSeq(caption, 1, 7) = "Figure "
    /\ \A k \in 8..i : IsDigit(Char(caption, k))
    /\ SubSeq(caption, i + 1, i + 2) = ": "

\* caption reads "Figure <n>: <Group> - <Title>" with the dash at j + 1.
IsGroupCaption(caption, i, j) ==
    /\ IsFigureCaption(caption, i)
    /\ j >= i + 3
    /\ Len(caption) >= j + 4
    /\ SubSeq(caption, j + 1, j + 3) = " " \o Dash \o " "

\* C11: process_title on "Figure N: Group - Title" sets number N, the
\* group lowercased with "_" for " " and the title lowercased; on
\* "Figure N: Title" it sets number N and the lowercased title and leaves
\* group empty; on any other caption it leaves number 0, group "" and the
\* title as it was.
C11_ProcessTitle ==
    \A c \in CallsOf("process_title") :
        LET caption == c.pre.title
            figure == {i \in 1..Len(caption) : IsFigureCaption(caption, i)}
            grouped == {q \in (1..Len(caption)) \X (1..Len(caption)) :
                            IsGroupCaption(caption, q[1], q[2])}
        IN /\ c.exc = ""
           /\ c.t.rows = c.pre.rows /\ c.t.headings = c.pre.headings
           /\ grouped # {} =>
                \E q \in grouped :
                    /\ c.t.number = ToInt(SubSeq(caption, 8, q[1]))
                    /\ c.t.group = ReplaceSpaces(Lower(SubSeq(caption, q[1] + 3, q[2])))
                    /\ c.t.title = Lower(SubSeq(caption, q[2] + 4, Len(caption)))
           /\ grouped = {} /\ figure # {} =>
                \E i \in figure :
                    /\ c.t.number = ToInt(SubSeq(caption, 8, i))
                    /\ c.t.group = ""
                    /\ c.t.title = Lower(SubSeq(caption, i + 3, Len(caption)))
           /\ figure = {} =>
                c.t.number = 0 /\ c.t.group = "" /\ c.t.title = caption

\* process_title has split a caption with a group.
C11_Witness ==
    \E c \in CallsOf("process_title") :
        /\ c.pre.title = "Figure 12: Admin Commands ~ Create Queue Command Dword 10"
        /\ c.t.number = 12
        /\ c.t.group = "admin_commands"
        /\ c.t.title = "create queue command dword 10"

\* row holds a list of integers under h: its width reduces to an integer.
ReducesToInteger(row, h) == Has(row, h) /\ row[h].t = "ints"

\* C18: after clean_bits_and_bytes on a table with a "bits" (else "bytes")
\* heading every row left holds a single integer under that heading: the
\* rows whose value did not reduce to an integer are dropped and all the
\* others are kept.
C18_OnlyIntegerWidthsLeft ==
    \A c \in CallsOf("clean_bits_and_bytes") :
        BitsOrBytes(c.pre) # "" =>
            /\ \A k \in 1..Len(c.t.rows) :
                    /\ Has(c.t.rows[k], BitsOrBytes(c.pre))
                    /\ c.t.rows[k][BitsOrBytes(c.pre)].t = "int"
            /\ Len(c.t.rows)
                 = Len(SelectSeq(c.pre.rows,
                                 LAMBDA row : ReducesToInteger(row, BitsOrBytes(c.pre))))


-----------------------------------------------------------------------------
(* Properties of transformer.main, stated over the record main of its      *)
(* run: the pages it was given, the tables flatten_pages made of them, the *)
(* groups of transform, the groups of collect_types (types) and the groups *)
(* as process_commands left them (result).                                 *)

\* The rows a page holds under caption c (none when it has no such table).
RowsOn(page, c) ==
    IF \E j \in 1..Len(page) : page[j].k = c
    THEN page[CHOOSE j \in 1..Len(page) : page[j].k = c].v
    ELSE <<>>

\* The rows of caption c on all pages, page after page.
RECURSIVE RowsOnPages(_, _)
RowsOnPages(pages, c) ==
    IF pages = <<>> THEN <<>>
    ELSE RowsOn(Head(pages), c) \o RowsOnPages(Tail(pages), c)

\* C13: flatten_pages gives one entry for every caption that is on a page
\* and no other entry; the rows of the entry are the rows of the caption on
\* the pages, concatenated in page order, so that no row is lost or
\* duplicated and a caption on one page only keeps its rows as they are.
C13_FlattenPagesConcatenates ==
    main.pc \notin {"idle", "flatten_pages"} =>
        /\ \A i \in 1..Len(main.tables) :
              \E p \in 1..Len(main.pages) : \E j \in 1..Len(main.pages[p]) :
                  main.pages[p][j].k = main.tables[i].k
        /\ \A p \in 1..Len(main.pages) : \A j \in 1..Len(main.pages[p]) :
              /\ Cardinality({i \in 1..Len(main.tables) :
                                 main.tables[i].k = main.pages[p][j].k}) = 1
              /\ \A i \in 1..Len(main.tables) :
                    main.tables[i].k = main.pages[p][j].k =>
                        /\ main.tables[i].v = RowsOnPages(main.pages, main.pages[p][j].k)
                        /\ (\A q \in 1..Len(main.pages) :
                               q # p => RowsOn(main.pages[q], main.pages[p][j].k) = <<>>)
                           => main.tables[i].v = main.pages[p][j].v

\* A table continued on the next page is flattened into one table.
C13_Witness ==
    /\ main.pc = "transform"
    /\ main.pages = <<<<Entry(Dword10, UpperHalf)>>, <<Entry(Dword10, LowerHalf)>>>>
    /\ main.tables = <<Entry(Dword10, UpperHalf \o LowerHalf)>>


\* The c types of the members of group i, as transform set them.
MemberCTypes(i) == {main.groups[i].v[j].c_type : j \in 1..Len(main.groups[i].v)}

\* C12: collect_types gives a group the c type "enum" when every member
\* table is an enum, "struct" when every member table is a struct, and
\* "skip" when the group mixes the two.
C12_GroupCTypeIsUnanimous ==
    main.pc \in {"process_commands", "return", "returned"} \/
    (main.pc = "raised" /\ main.types # <<>>) =>
        /\ Len(main.types) = Len(main.groups)
        /\ \A i \in 1..Len(main.types) :
              /\ main.types[i].k = main.groups[i].k
              /\ MemberCTypes(i) = {"enum"} => main.types[i].v.c_type = "enum"
              /\ MemberCTypes(i) = {"struct"} => main.types[i].v.c_type = "struct"
              /\ MemberCTypes(i) \notin {{"enum"}, {"struct"}}
                    => main.types[i].v.c_type = "skip"

\* A group of a struct and an enum is skipped, beside a group of enums.
C12_Witness ==
    /\ main.pc = "process_commands"
    /\ \E i \in 1..Len(main.types) :
          MemberCTypes(i) = {"enum", "struct"} /\ main.types[i].v.c_type = "skip"
    /\ \E i \in 1..Len(main.types) :
          MemberCTypes(i) = {"enum"} /\ main.types[i].v.c_type = "enum"


\* process_commands has run, to its end or to an exception.
AfterProcessCommands ==
    main.pc \in {"return", "returned"} \/ (main.pc = "raised" /\ main.types # <<>>)

\* The synthetic 32-bit table of dword n, whose title a table of two dwords
\* may have marked.
IsPlaceholder(slot, n) ==
    /\ slot.headings = <<"bits", "name">>
    /\ slot.number = -1
    /\ slot.rows = <<[bits |-> IntV(32), name |-> StrV("cdw" \o ToStr(n))]>>
    /\ slot.type = 32
    /\ slot.title \in {"", "skip"}

\* The bits of the rows of a member table are integers and sum up to width.
SumsTo(member, width) ==
    /\ \A k \in 1..Len(member.rows) :
          Has(member.rows[k], "bits") /\ member.rows[k]["bits"].t = "int"
    /\ SumRows(member.rows, "bits") = width

\* The title of a member table names dword n, alone (width 32) or as one of
\* two dwords (width 64).
NamesDword(member, n, width) ==
    /\ Len(FindDwords(member.title, 1)) * 32 = width
    /\ \E k \in 1..Len(FindDwords(member.title, 1)) :
          ToInt(FindDwords(member.title, 1)[k]) = n

\* A slot holds a member table, with its type, under its title or under
\* the title "skip".
HoldsMember(slot, member, width) ==
    /\ slot.headings = member.headings
    /\ slot.number = member.number
    /\ slot.rows = member.rows
    /\ slot.type = width
    /\ slot.title \in {member.title, "skip"}

\* The tables of command group i are 16 slots, each a fitting member or the
\* placeholder, and the members that do not fit are warned about and are in
\* no slot.
SixteenSlots(i) ==
    /\ Len(main.result[i].v.tables) = Dwords
    /\ \A n \in 0..(Dwords - 1) :
          \/ IsPlaceholder(main.result[i].v.tables[n + 1], n)
          \/ \E j \in 1..Len(main.types[i].v.tables) : \E width \in {32, 64} :
                /\ NamesDword(main.types[i].v.tables[j], n, width)
                /\ SumsTo(main.types[i].v.tables[j], width)
                /\ HoldsMember(main.result[i].v.tables[n + 1],
                               main.types[i].v.tables[j], width)
    /\ \A j \in 1..Len(main.types[i].v.tables) : \A width \in {32, 64} :
          (/\ Len(FindDwords(main.types[i].v.tables[j].title, 1)) * 32 = width
           /\ ~SumsTo(main.types[i].v.tables[j], width))
          => /\ SumWarning(main.types[i].v.tables[j], width) \in main.warn
             /\ \A n \in 0..(Dwords - 1) :
                   main.result[i].v.tables[n + 1].number # main.types[i].v.tables[j].number

\* C14: after process_commands every group of spec type "command" has 16
\* tables; slot i holds a member table only when the member's title names
\* dword i and its bits sum up to 32 (one dword, type 32) or to 64 (two
\* dwords, type 64); a member whose bits do not sum up is warned about and
\* is in no slot; every other slot holds the placeholder with the row
\* cdw<i>.
C14_CommandGroupsHaveSixteenSlots ==
    AfterProcessCommands =>
        \A i \in 1..Len(main.result) :
            main.result[i].v.spec_type = "command" => SixteenSlots(i)

\* C15: a member table whose title names two dwords, a and then b, and
\* whose bits sum up to 64 is stored with type 64 at slot a and at slot b,
\* and the title at slot b is "skip".
C15_TwoDwordsStoredAtBothSlots ==
    AfterProcessCommands =>
        \A i \in 1..Len(main.result) : \A j \in 1..Len(main.types[i].v.tables) :
            (/\ main.result[i].v.spec_type = "command"
             /\ Len(main.types[i].v.tables) = 1
             /\ Len(FindDwords(main.types[i].v.tables[j].title, 1)) = 2
             /\ SumsTo(main.types[i].v.tables[j], 64))
            => /\ Len(main.result[i].v.tables) = Dwords
               /\ HoldsMember(
                      main.result[i].v.tables[
                          ToInt(FindDwords(main.types[i].v.tables[j].title, 1)[1]) + 1],
                      main.types[i].v.tables[j], 64)
               /\ HoldsMember(
                      main.result[i].v.tables[
                          ToInt(FindDwords(main.types[i].v.tables[j].title, 1)[2]) + 1],
                      main.types[i].v.tables[j], 64)
               /\ main.result[i].v.tables[
                      ToInt(FindDwords(main.types[i].v.tables[j].title, 1)[2]) + 1].title
                  = "skip"


\* The pages whose tables were extracted and parsed.
GoodPages ==
    {i \in 1..Len(schedule.items) :
        schedule.items[i].extract = "tables" /\ schedule.items[i].parse = "ok"}

\* C16: a failure of one worker, in extraction or in parsing, does not end
\* schedule: no interleaving of the workers makes it raise, every failure
\* is logged, and when schedule returns it has collected the results of
\* exactly the pages that did not fail (a failed page adds nothing).
C16_PageFailureIsContained ==
    /\ schedule.pc # "raised"
    /\ schedule.pc = "returned" =>
          /\ schedule.pages = GoodPages
          /\ \A i \in 1..Len(schedule.items) :
                (\/ schedule.items[i].extract \in {"FileNotFoundError", "Exception"}
                 \/ (schedule.items[i].extract = "tables"
                     /\ schedule.items[i].parse = "Exception"))
                => \E l \in schedule.log : l.page = i


\* The captions check_figure_number keeps: the places, from 0, that are not
\* in captions_to_skip.
Kept ==
    {i \in 0..(Len(check.args.captions) - 1) : ~InSeq(i, check.captions_to_skip)}

\* The caption at place i (from 0) reads "Figure N: ..." with N in the list.
FigureIn(i, list) ==
    \E k \in 1..Len(check.args.captions[i + 1]) :
        /\ IsFigureCaption(check.args.captions[i + 1], k)
        /\ InSeq(ToInt(SubSeq(check.args.captions[i + 1], 8, k)), list)

\* The caption at place i (from 0) reads "Figure N: ...".
IsFigure(i) ==
    \E k \in 1..Len(check.args.captions[i + 1]) :
        IsFigureCaption(check.args.captions[i + 1], k)

\* C17: with a target list that is not empty the ignore list is not used
\* and the captions kept are those whose figure number is a target; with
\* no target list the captions kept are the captions "Figure N: ..." whose
\* number is not ignored; any other caption is skipped.
C17_TargetsOverrideIgnores ==
    check.pc = "returned" =>
        /\ Len(check.args.targets) > 0 =>
              Kept = {i \in 0..(Len(check.args.captions) - 1) :
                         FigureIn(i, check.args.targets)}
        /\ Len(check.args.targets) = 0 =>
              Kept = {i \in 0..(Len(check.args.captions) - 1) :
                         IsFigure(i) /\ ~FigureIn(i, check.args.ignores)}
        /\ \A i \in 0..(Len(check.args.captions) - 1) : ~IsFigure(i) => i \notin Kept


-----------------------------------------------------------------------------
(* Properties of the parser, stated over the run parse of parse_content    *)
(* and the record parse.call of its last call of parse_row.                *)

\* s is an unsigned decimal number.
IsDecimal(s) == s # "" /\ \A i \in 1..Len(s) : IsDigit(Char(s, i))

\* Where sep stands in a cell that reads <number><sep><number>.
PairAt(cell, sep) ==
    {k \in 2..(Len(cell) - Len(sep)) :
        /\ SubSeq(cell, k, k + Len(sep) - 1) = sep
        /\ IsDecimal(SubSeq(cell, 1, k - 1))
        /\ IsDecimal(SubSeq(cell, k + Len(sep), Len(cell)))}

\* The cell reads N, hi:lo, lo:hi or "N to M".
KnownForm(cell) == IsDecimal(cell) \/ PairAt(cell, ":") # {} \/ PairAt(cell, " to ") # {}

\* The cell starts with a stray "Nh".
StrayHex(cell) ==
    \E k \in 2..Len(cell) : IsDecimal(SubSeq(cell, 1, k - 1)) /\ Char(cell, k) = "h"

\* The two numbers around sep at k, the larger first.
Descending(cell, sep, k) ==
    LET a == ToInt(SubSeq(cell, 1, k - 1))
        b == ToInt(SubSeq(cell, k + Len(sep), Len(cell)))
    IN IF a < b THEN <<b, a>> ELSE <<a, b>>

\* The places of the bits/bytes headings of the last call of parse_row.
BitsColumns ==
    {i \in 1..Len(parse.call.headings) : parse.call.headings[i] \in {"bits", "bytes"}}

CellOf(i) == parse.call.row[parse.call.start_index + i]

\* The last call logged the warning msg about the cell of column i.
Warned(msg, i) ==
    [msg |-> msg, heading |-> parse.call.headings[i], cell |-> CellOf(i)] \in parse.call.warn

\* The value stored for column i is one integer, or two in descending order.
OneOrDescendingPair(i) ==
    /\ parse.call.content[parse.call.headings[i]].t = "ints"
    /\ \/ Len(parse.call.content[parse.call.headings[i]].v) = 1
       \/ /\ Len(parse.call.content[parse.call.headings[i]].v) = 2
          /\ parse.call.content[parse.call.headings[i]].v[1]
             >= parse.call.content[parse.call.headings[i]].v[2]

\* What parse_row does with the cell of column i when it reads N, hi:lo,
\* lo:hi, "N to M", nothing or a stray "Nh".
CellStoredAsRead(i) ==
    /\ IsDecimal(CellOf(i)) =>
          /\ Has(parse.call.content, parse.call.headings[i])
          /\ parse.call.content[parse.call.headings[i]] = IntsV(<<ToInt(CellOf(i))>>)
    /\ \A k \in PairAt(CellOf(i), ":") :
          /\ Has(parse.call.content, parse.call.headings[i])
          /\ parse.call.content[parse.call.headings[i]]
             = IntsV(Descending(CellOf(i), ":", k))
          /\ Warned("range is in wrong order", i)
             <=> ToInt(SubSeq(CellOf(i), 1, k - 1))
                 < ToInt(SubSeq(CellOf(i), k + 1, Len(CellOf(i))))
    /\ \A k \in PairAt(CellOf(i), " to ") :
          /\ Has(parse.call.content, parse.call.headings[i])
          /\ parse.call.content[parse.call.headings[i]]
             = IntsV(Descending(CellOf(i), " to ", k))
          /\ Warned("range is of the wrong format", i)
    /\ (CellOf(i) = "" \/ StrayHex(CellOf(i))) =>
          ~Has(parse.call.content, parse.call.headings[i])

BlankAcrossHeadings(a) ==
    \A k \in 1..Len(parse.headings) : k <= Len(parse.rows[a]) => parse.rows[a][k] = ""

\* The row at place a is blank in every column.
BlankAcross(a) == \A k \in 1..Len(parse.rows[a]) : parse.rows[a][k] = ""

\* The places, among the first n rows, of the rows that are not blank
\* across the heading columns: the top-level rows.
Tops(n) == {a \in 1..n : ~BlankAcrossHeadings(a)}

\* The places, among the first n rows, of the rows of the nested table of
\* the top-level row at a: blank across the heading columns, not blank
\* everywhere, with no top-level row between a and them.  With a = 0, the
\* rows of this kind before any top-level row.
NestedOf(a, n) ==
    {b \in (a + 1)..n :
        /\ BlankAcrossHeadings(b)
        /\ ~BlankAcross(b)
        /\ Tops(b) \subseteq 1..a}

\* The k-th smallest number of S.
Nth(S, k) == CHOOSE x \in S : Cardinality({y \in S : y < x}) = k - 1

\* The children of the top-level row at a after n rows: the rows of its
\* nested table but the first, parsed against the headings the first one
\* gives, from the column after the headings on.
ChildrenOf(a, n) ==
    [j \in 1..(Cardinality(NestedOf(a, n)) - 1) |->
        ParseRow(parse.rows[Nth(NestedOf(a, n), j + 1)],
                 ParseHeadings(parse.rows[Nth(NestedOf(a, n), 1)]),
                 Len(parse.headings)).content]

\* The record of the top-level row at a after n rows.
RecordOf(a, n) ==
    Put(ParseRow(parse.rows[a], parse.headings, 0).content,
        "children", RowsV(ChildrenOf(a, n)))

\* The last top-level row among the first n rows, 0 when there is none.
LastTop(n) == IF Tops(n) = {} THEN 0 ELSE Max(Tops(n))

\* C19: parse_content works through the rows in order.  After any number
\* of rows, and when it returns, output holds one record for every row
\* that is not blank across the heading columns, in the order of the rows;
\* the children of a record are the rows of the nested table that follows
\* its row, but the first, which gives the secondary headings and no
\* record, each parsed against the secondary headings with the index
\* offset len(headings); an all-blank row adds nothing; secondary headings
\* are pending exactly when a row of a nested table has come since the
\* last top-level row.
C19_RowsBecomeRecordsAndChildren ==
    parse.pc \in {"rows", "returned"} =>
        /\ Len(parse.output) = Cardinality(Tops(parse.i - 1))
        /\ \A k \in 1..Len(parse.output) :
              parse.output[k] = RecordOf(Nth(Tops(parse.i - 1), k), parse.i - 1)
        /\ parse.subheadings.set <=> NestedOf(LastTop(parse.i - 1), parse.i - 1) # {}
        /\ parse.subheadings.set =>
              parse.subheadings.v
              = ParseHeadings(parse.rows[Nth(NestedOf(LastTop(parse.i - 1), parse.i - 1), 1)])

\* parse_content returned two records for a top-level row, the headings of
\* its nested table, a row of that table and a second top-level row: the
\* first record has the one child, the second none.
C19_Witness ==
    /\ parse.pc = "returned"
    /\ Len(parse.rows) = 4
    /\ Tops(4) = {1, 4}
    /\ NestedOf(1, 4) = {2, 3}
    /\ Len(parse.output) = 2
    /\ Len(parse.output[1]["children"].v) = 1
    /\ Has(parse.output[1]["children"].v[1], "value")
    /\ parse.output[2]["children"].v = <<>>


-----------------------------------------------------------------------------
(* Properties of process_children and of transform's grouping.             *)

\* The table as the child step name leaves it, whether it raised or not.
AfterChildStep(name, t) == ChildMethod(name, t).t

\* The child records rows, as the table titled title, run through the five
\* child steps in order.
ChildrenProcessed(title, rows) ==
    AfterChildStep("reverse_bits_rows",
        AfterChildStep("clean_hex",
            AfterChildStep("clean_bits_and_bytes",
                AfterChildStep("enforce_headings",
                    AfterChildStep("remove_empty_children",
                                   NewTable(title, rows)))))).rows

\* The title process_children gives the child tables of the table t.
ChildTitle(t) == "Figure " \o ToStr(t.number) \o ":children"

\* A child table can be made of the children of row k of the table t.
HasChildTable(t, k) ==
    Has(t.rows[k], "children") /\ CreateHeadingsExc(t.rows[k]["children"].v) = ""

\* The call c of process_children left row k with its children processed.
ChildrenWrittenBack(c, k) ==
    /\ Has(c.t.rows[k], "children")
    /\ c.t.rows[k]["children"]
       = RowsV(ChildrenProcessed(ChildTitle(c.pre), c.pre.rows[k]["children"].v))
    /\ \A j \in 1..Len(c.t.rows[k]["children"].v) :
          ~(Has(c.t.rows[k]["children"].v[j], "children")
            /\ c.t.rows[k]["children"].v[j]["children"] = RowsV(<<>>))

\* The call c of process_children changed nothing of the table but the
\* children of its rows.
ParentKept(c) ==
    /\ c.t.title = c.pre.title
    /\ c.t.number = c.pre.number
    /\ c.t.group = c.pre.group
    /\ c.t.spec_type = c.pre.spec_type
    /\ c.t.c_type = c.pre.c_type
    /\ c.t.headings = c.pre.headings
    /\ Len(c.t.rows) = Len(c.pre.rows)
    /\ \A k \in 1..Len(c.pre.rows) :
          /\ DOMAIN c.t.rows[k] = DOMAIN c.pre.rows[k]
          /\ \A key \in DOMAIN c.pre.rows[k] \ {"children"} :
                c.t.rows[k][key] = c.pre.rows[k][key]

\* C21: after process_children the children of every row that has a child
\* table have been run through remove_empty_children, enforce_headings,
\* clean_bits_and_bytes, clean_hex and reverse_bits_rows in that order and
\* written back to the row, with no empty "children" list left in a child
\* record; a row whose child table cannot be made does not keep the rows
\* after it from being processed; the parent's title, number, group,
\* spec_type, c_type and headings are as they were.
C21_ChildrenProcessedRowByRow ==
    \A c \in CallsOf("process_children") :
        /\ ParentKept(c)
        /\ \A k \in 1..Len(c.pre.rows) :
              HasChildTable(c.pre, k) => ChildrenWrittenBack(c, k)


\* transform has run, to its end or to an exception.
AfterTransform == main.pc \notin {"idle", "flatten_pages", "transform"}

\* The table the ten steps make of the entry (caption, rows).
Piped(entry) == RunMethods(Ok(NewTable(entry.k, entry.v)), MethodNames).t

\* The tables of the input that belong to the group keyed key, transformed,
\* in input order.
MembersOf(key) ==
    LET members == SelectSeq(main.tables, LAMBDA entry : Piped(entry).group = key)
    IN [j \in 1..Len(members) |-> Transformed(Piped(members[j]))]

\* The number of tables in the groups gs.
RECURSIVE TotalTables(_)
TotalTables(gs) == IF gs = <<>> THEN 0 ELSE Len(Head(gs).v) + TotalTables(Tail(gs))

\* C22: transform conserves tables: every (caption, rows) pair of its input
\* gives one transformed table, which is in the group keyed by the group
\* derived from its caption ("" when there is none) and in no other; the
\* groups hold as many tables as the input has captions, and the tables of
\* a group are in input order.
C22_TransformConservesTables ==
    AfterTransform =>
        /\ \A i \in 1..Len(main.tables) :
              /\ CreateHeadingsExc(main.tables[i].v) = ""
              /\ \E g \in 1..Len(main.groups) :
                    main.groups[g].k = Piped(main.tables[i]).group
        /\ \A g, h \in 1..Len(main.groups) :
              main.groups[g].k = main.groups[h].k => g = h
        /\ \A g \in 1..Len(main.groups) :
              main.groups[g].v = MembersOf(main.groups[g].k)
        /\ TotalTables(main.groups) = Len(main.tables)

=============================================================================
